---- MODULE Spec2Model ----
(***************************************************************************)
(* A model of the Monkey interpreter: lexer and Pratt parser, tree-walking *)
(* evaluator, bytecode compiler and stack virtual machine.                 *)
(*                                                                         *)
(* Values are records [type, val, id].  `type` is the tag Type() returns,  *)
(* `id` is the identity of the Go pointer (two values are the same Go      *)
(* object iff they agree on type and id), and `val` the payload.  Arrays   *)
(* keep their elements in the object store (objs[id]) because push and pop *)
(* mutate them in place.                                                   *)
(***************************************************************************)
EXTENDS Integers, Sequences, FiniteSets, TLC

VARIABLES
    program,    \* the AST handed to both back ends (ast.Program)
    order,      \* the order in which Go's map iteration visits hash pairs
    evalOut,    \* what evaluator.Eval returned: [r, st], or NotRun
    vm,         \* the virtual machine (vm.VM) with its run status
    ps,         \* the parser (parser.Parser) with its position in ParseProgram
    lx,         \* the lexer (lexer.Lexer) with the tokens NextToken has returned
    symtabs     \* the symbol tables (compiler.SymbolTable) a test has made

vars == <<program, order, evalOut, vm, ps, lx, symtabs>>

(***************************************************************************)
(* Objects (object package)                                                *)
(***************************************************************************)

\* Go's nil interface value, and the outcome of a host fault (a Go panic).
NIL == [type |-> "nil", val |-> 0, id |-> 0]
Panic(msg) == [type |-> "PANIC", val |-> msg, id |-> 0]
IsPanic(o) == o.type = "PANIC"
NilDeref == Panic("invalid memory address or nil pointer dereference")
IndexOutOfRange == Panic("index out of range")
DivideByZero == Panic("integer divide by zero")

\* The canonical singletons of the evaluator.
TRUE_OBJ == [type |-> "BOOLEAN", val |-> TRUE, id |-> 1]
FALSE_OBJ == [type |-> "BOOLEAN", val |-> FALSE, id |-> 2]
NULL == [type |-> "NULL", val |-> 0, id |-> 3]

\* The canonical singletons of the VM.
True == [type |-> "BOOLEAN", val |-> TRUE, id |-> 1]
False == [type |-> "BOOLEAN", val |-> FALSE, id |-> 2]
Null == [type |-> "NULL", val |-> 0, id |-> 3]

\* Go's == on two object.Object interfaces holding pointers.
SameObj(a, b) == a.type = b.type /\ a.id = b.id

\* The object store: objs[id] holds the elements of array id, <<>> otherwise.
\* Allocating gives the next id.
NewObj(st, t, v) == [type |-> t, val |-> v, id |-> Len(st.objs) + 1]
Alloc(st, elems) == [st EXCEPT !.objs = Append(@, elems)]

Elements(st, arr) == st.objs[arr.id]

(***************************************************************************)
(* float64 values.  A float is <<n, d>>: the rational n/d in lowest terms  *)
(* with d > 0, or <<1, 0>> (+Inf), <<-1, 0>> (-Inf), <<0, 0>> (NaN).  The  *)
(* sign of a zero is not kept.                                             *)
(***************************************************************************)
Sign(n) == IF n > 0 THEN 1 ELSE IF n < 0 THEN -1 ELSE 0
Abs(n) == IF n < 0 THEN -n ELSE n

RECURSIVE GCD(_, _)
GCD(a, b) == IF b = 0 THEN a ELSE GCD(b, a % b)

FNorm(n, d) ==
    IF d = 0 THEN <<Sign(n), 0>>
    ELSE LET g == GCD(Abs(n), Abs(d))
             s == IF d < 0 THEN -1 ELSE 1
         IN <<(s * n) \div g, (s * d) \div g>>

FNaN == <<0, 0>>
FIsNaN(a) == a = FNaN
FNeg(a) == <<-a[1], a[2]>>
FAdd(a, b) ==
    IF FIsNaN(a) \/ FIsNaN(b) THEN FNaN
    ELSE IF a[2] = 0 THEN (IF b[2] = 0 /\ b[1] # a[1] THEN FNaN ELSE a)
    ELSE IF b[2] = 0 THEN b
    ELSE FNorm(a[1] * b[2] + b[1] * a[2], a[2] * b[2])
FSub(a, b) == FAdd(a, FNeg(b))
FMul(a, b) == FNorm(a[1] * b[1], a[2] * b[2])
FInv(a) ==
    IF a[1] = 0 THEN (IF a[2] = 0 THEN FNaN ELSE <<1, 0>>)
    ELSE IF a[2] = 0 THEN <<0, 1>>
    ELSE FNorm(a[2], a[1])
FDiv(a, b) == FMul(a, FInv(b))
FEq(a, b) == ~FIsNaN(a) /\ ~FIsNaN(b) /\ a = b
FLess(a, b) ==
    IF FIsNaN(a) \/ FIsNaN(b) \/ a = b THEN FALSE
    ELSE IF a[2] = 0 THEN a[1] < 0
    ELSE IF b[2] = 0 THEN b[1] > 0
    ELSE a[1] * b[2] < b[1] * a[2]

\* Go's integer division truncates toward zero.
GoDiv(a, b) == Sign(a) * Sign(b) * (Abs(a) \div Abs(b))

(***************************************************************************)
(* Hash keys (object.HashKey).  Value is the uint64 as 8 bytes, least      *)
(* significant first.  Strings are byte sequences.                         *)
(***************************************************************************)
RECURSIVE Bytes(_, _)
Bytes(v, n) == IF n = 0 THEN <<>> ELSE <<v % 256>> \o Bytes(v \div 256, n - 1)

\* uint64(int64): the two's complement bit pattern.
Uint64(v) ==
    IF v >= 0 THEN Bytes(v, 8)
    ELSE LET m == Bytes((-v) - 1, 8) IN [i \in 1..8 |-> 255 - m[i]]

RECURSIVE XorBits(_, _, _)
XorBits(a, b, n) ==
    IF n = 0 THEN 0
    ELSE (((a % 2) + (b % 2)) % 2) + 2 * XorBits(a \div 2, b \div 2, n - 1)

\* h * 0x100000001b3 mod 2^64 = h * 0x1b3 + (h << 40), byte by byte.
RECURSIVE FnvMulFrom(_, _, _)
FnvMulFrom(h, i, carry) ==
    IF i > 8 THEN <<>>
    ELSE LET t == (h[i] * 435) + (IF i > 5 THEN h[i - 5] ELSE 0) + carry
         IN <<t % 256>> \o FnvMulFrom(h, i + 1, t \div 256)

RECURSIVE Fnv64aFrom(_, _, _)
Fnv64aFrom(h, s, i) ==
    IF i > Len(s) THEN h
    ELSE Fnv64aFrom(FnvMulFrom([h EXCEPT ![1] = XorBits(@, s[i], 8)], 1, 0), s, i + 1)

\* fnv.New64a(): offset basis 0xcbf29ce484222325.
Fnv64a(s) == Fnv64aFrom(<<37, 35, 34, 132, 228, 156, 242, 203>>, s, 1)

\* A hash key without the type of the object.
HashKeyOfValue(o) ==
    [Type |-> "",
     Value |-> CASE o.type = "BOOLEAN" -> Bytes(IF o.val THEN 1 ELSE 0, 8)
                 [] o.type = "INTEGER" -> Uint64(o.val)
                 [] o.type = "STRING" -> Fnv64a(o.val)]

Hashable(o) == o.type \in {"BOOLEAN", "INTEGER", "STRING"}

HashKey(o) ==
    [Type |-> o.type,
     Value |-> CASE o.type = "BOOLEAN" -> Bytes(IF o.val THEN 1 ELSE 0, 8)
                 [] o.type = "INTEGER" -> Uint64(o.val)
                 [] o.type = "STRING" -> Fnv64a(o.val)]

HashPair(k, v) == [Key |-> k, Value |-> v]

(***************************************************************************)
(* AST (ast package), as the parser builds it.  A string literal's Value   *)
(* and an identifier's Value are what the token's Literal held.            *)
(***************************************************************************)
NilNode == [k |-> "nil"]
IntegerLiteral(v) == [k |-> "IntegerLiteral", Value |-> v]
FloatLiteral(v) == [k |-> "FloatLiteral", Value |-> v]
Boolean(v) == [k |-> "Boolean", Value |-> v]
StringLiteral(v) == [k |-> "StringLiteral", Value |-> v]
Identifier(v) == [k |-> "Identifier", Value |-> v]
PrefixExpression(op, right) == [k |-> "PrefixExpression", Operator |-> op, Right |-> right]
InfixExpression(op, left, right) ==
    [k |-> "InfixExpression", Operator |-> op, Left |-> left, Right |-> right]
BlockStatement(stmts) == [k |-> "BlockStatement", Statements |-> stmts]
IfExpression(cond, cons, alt) ==
    [k |-> "IfExpression", Condition |-> cond, Consequence |-> cons, Alternative |-> alt]
FunctionLiteral(params, body, name) ==
    [k |-> "FunctionLiteral", Parameters |-> params, Body |-> body, Name |-> name]
CallExpression(fn, args) == [k |-> "CallExpression", Function |-> fn, Arguments |-> args]
ArrayLiteral(elems) == [k |-> "ArrayLiteral", Elements |-> elems]
IndexExpression(left, index) == [k |-> "IndexExpression", Left |-> left, Index |-> index]
\* Pairs is a Go map keyed by node identity: a sequence of <<key, value>> here,
\* visited in the order the run's `order` gives.
HashLiteral(pairs) == [k |-> "HashLiteral", Pairs |-> pairs]
ExpressionStatement(e) == [k |-> "ExpressionStatement", Expression |-> e]
ReturnStatement(e) == [k |-> "ReturnStatement", ReturnValue |-> e]
\* parseLetStatement names a function literal after the let that binds it.
LetStatement(name, value) ==
    [k |-> "LetStatement", Name |-> name,
     Value |-> IF value.k = "FunctionLiteral" THEN [value EXCEPT !.Name = name] ELSE value]
ImportLiteral(path) == [k |-> "ImportLiteral", Path |-> path]
Program(stmts) == [k |-> "Program", Statements |-> stmts]

(***************************************************************************)
(* Environment (object.Environment): a store and an outer environment.     *)
(* envs[e] is environment e; outer = 0 is no outer.                        *)
(***************************************************************************)
NewEnvironment == [store |-> <<>>, outer |-> 0]

NewEnclosedEnvironment(st, outer) ==
    [st EXCEPT !.envs = Append(@, [store |-> <<>>, outer |-> outer])]

RECURSIVE EnvHas(_, _, _)
EnvHas(envs, e, name) ==
    IF e = 0 THEN FALSE
    ELSE IF \E i \in 1..Len(envs[e].store) : envs[e].store[i][1] = name THEN TRUE
    ELSE EnvHas(envs, envs[e].outer, name)

Lookup(store, name) ==
    store[CHOOSE i \in 1..Len(store) : store[i][1] = name][2]

RECURSIVE EnvGet(_, _, _)
EnvGet(envs, e, name) ==
    IF \E i \in 1..Len(envs[e].store) : envs[e].store[i][1] = name
    THEN Lookup(envs[e].store, name)
    ELSE EnvGet(envs, envs[e].outer, name)

StoreSet(store, name, val) ==
    IF \E i \in 1..Len(store) : store[i][1] = name
    THEN [i \in 1..Len(store) |-> IF store[i][1] = name THEN <<name, val>> ELSE store[i]]
    ELSE Append(store, <<name, val>>)

EnvSet(st, e, name, val) ==
    [st EXCEPT !.envs[e].store = StoreSet(@, name, val)]

(***************************************************************************)
(* Builtins (object.Builtins).  A builtin returns [r, st]; r = NIL is Go's *)
(* nil, which both back ends turn into Null.  The backquotes of the        *)
(* source's messages are written ' here.                                   *)
(***************************************************************************)
Ret(r, st) == [r |-> r, st |-> st]
Mk(st, t, v) == Ret(NewObj(st, t, v), Alloc(st, <<>>))
MkArray(st, elems) == Ret(NewObj(st, "ARRAY", 0), Alloc(st, elems))
newError(st, msg) == Mk(st, "ERROR", msg)

BuiltinNames == <<"len", "puts", "first", "last", "rest", "push", "pop", "join", "random", "exp">>

BuiltinIndex(name) == CHOOSE i \in 1..Len(BuiltinNames) : BuiltinNames[i] = name

\* GetBuiltInByName: the Builtin object of that name.
GetBuiltInByName(name) == [type |-> "BUILTIN", val |-> name, id |-> BuiltinIndex(name)]

WrongArgs(st, got, want) ==
    newError(st, "wrong number of arguments. got=" \o ToString(got) \o ", want=" \o ToString(want))

MustBeArray(st, name, arg) ==
    newError(st, "argument to '" \o name \o "' must be ARRAY, got " \o arg.type)

BuiltinLen(args, st) ==
    IF Len(args) # 1 THEN WrongArgs(st, Len(args), 1)
    ELSE CASE args[1].type = "STRING" -> Mk(st, "INTEGER", Len(args[1].val))
           [] args[1].type = "ARRAY" -> Mk(st, "INTEGER", Len(Elements(st, args[1])))
           [] args[1].type = "nil" -> Ret(NilDeref, st)
           [] OTHER -> newError(st, "argument to 'len' not supported, got " \o args[1].type)

BuiltinPuts(args, st) ==
    IF \E i \in 1..Len(args) : args[i].type = "nil" THEN Ret(NilDeref, st) ELSE Ret(NIL, st)

BuiltinFirst(args, st) ==
    IF Len(args) # 1 THEN WrongArgs(st, Len(args), 1)
    ELSE IF args[1].type = "nil" THEN Ret(NilDeref, st)
    ELSE IF args[1].type # "ARRAY" THEN MustBeArray(st, "first", args[1])
    ELSE IF Len(Elements(st, args[1])) > 0 THEN Ret(Elements(st, args[1])[1], st)
    ELSE Ret(NIL, st)

BuiltinLast(args, st) ==
    IF Len(args) # 1 THEN WrongArgs(st, Len(args), 1)
    ELSE IF args[1].type = "nil" THEN Ret(NilDeref, st)
    ELSE IF args[1].type # "ARRAY" THEN MustBeArray(st, "last", args[1])
    ELSE LET el == Elements(st, args[1])
         IN IF Len(el) > 0 THEN Ret(el[Len(el)], st) ELSE Ret(NIL, st)

BuiltinRest(args, st) ==
    IF Len(args) # 1 THEN WrongArgs(st, Len(args), 1)
    ELSE IF args[1].type = "nil" THEN Ret(NilDeref, st)
    ELSE IF args[1].type # "ARRAY" THEN MustBeArray(st, "rest", args[1])
    ELSE LET el == Elements(st, args[1])
         IN IF Len(el) > 0 THEN MkArray(st, Tail(el)) ELSE Ret(NIL, st)

\* A push that returns a new array and leaves its argument as it was.
BuiltinPushCopy(args, st) ==
    IF Len(args) # 2 THEN WrongArgs(st, Len(args), 2)
    ELSE IF args[1].type = "nil" THEN Ret(NilDeref, st)
    ELSE IF args[1].type # "ARRAY" THEN MustBeArray(st, "push", args[1])
    ELSE MkArray(st, Append(Elements(st, args[1]), args[2]))

BuiltinPush(args, st) ==
    IF Len(args) # 2 THEN WrongArgs(st, Len(args), 2)
    ELSE IF args[1].type = "nil" THEN Ret(NilDeref, st)
    ELSE IF args[1].type # "ARRAY" THEN MustBeArray(st, "push", args[1])
    ELSE Ret(args[1], [st EXCEPT !.objs[args[1].id] = Append(@, args[2])])

BuiltinPop(args, st) ==
    IF Len(args) # 1 THEN WrongArgs(st, Len(args), 1)
    ELSE IF args[1].type = "nil" THEN Ret(NilDeref, st)
    ELSE IF args[1].type # "ARRAY" THEN MustBeArray(st, "pop", args[1])
    ELSE LET el == Elements(st, args[1])
         IN IF Len(el) > 0
            THEN Ret(el[Len(el)], [st EXCEPT !.objs[args[1].id] = SubSeq(el, 1, Len(el) - 1)])
            ELSE Ret(NIL, st)

\* fmt.Sprintf("%d", n) as bytes.
RECURSIVE Digits(_)
Digits(n) == IF n < 10 THEN <<48 + n>> ELSE Append(Digits(n \div 10), 48 + (n % 10))

Decimal(n) == IF n < 0 THEN <<45>> \o Digits(-n) ELSE Digits(n)

\* Inspect of the objects a program here joins: integers, booleans, strings
\* and null.  The inspection of the other objects is not followed.
Inspect(o) ==
    CASE o.type = "INTEGER" -> Decimal(o.val)
      [] o.type = "BOOLEAN" -> IF o.val THEN <<116, 114, 117, 101>>
                               ELSE <<102, 97, 108, 115, 101>>
      [] o.type = "STRING" -> o.val
      [] o.type = "NULL" -> <<110, 117, 108, 108>>
      [] OTHER -> <<>>

\* strings.Join(strs, sep) from strs[i] on.
RECURSIVE JoinFrom(_, _, _)
JoinFrom(elems, sep, i) ==
    IF i > Len(elems) THEN <<>>
    ELSE IF i = Len(elems) THEN Inspect(elems[i])
    ELSE Inspect(elems[i]) \o sep \o JoinFrom(elems, sep, i + 1)

BuiltinJoin(args, st) ==
    IF Len(args) # 2 THEN WrongArgs(st, Len(args), 2)
    ELSE IF args[1].type = "nil" THEN Ret(NilDeref, st)
    ELSE IF args[1].type # "ARRAY"
    THEN newError(st, "first argument to 'join' must be ARRAY, got " \o args[1].type)
    ELSE IF args[2].type = "nil" THEN Ret(NilDeref, st)
    ELSE IF args[2].type # "STRING"
    THEN newError(st, "second argument to 'join' must be STRING, got " \o args[2].type)
    ELSE IF \E i \in 1..Len(Elements(st, args[1])) : Elements(st, args[1])[i].type = "nil"
    THEN Ret(NilDeref, st)
    ELSE Mk(st, "STRING", JoinFrom(Elements(st, args[1]), args[2].val, 1))

\* random(): a float of [0, 1) from the host's generator, 1/2 here.
BuiltinRandom(args, st) ==
    IF Len(args) > 0 THEN newError(st, "random() takes no arguments")
    ELSE Mk(st, "FLOAT", <<1, 2>>)

\* math.Exp: 1 at 0; e^x is kept as the term <<"exp", x>> elsewhere.
Exp(x) == IF x = <<0, 1>> THEN <<1, 1>> ELSE <<"exp", x>>

BuiltinExp(args, st) ==
    IF Len(args) # 1
    THEN newError(st, "wrong number of arguments. exp() requires exactly one argument.")
    ELSE CASE args[1].type = "FLOAT" -> Mk(st, "FLOAT", Exp(args[1].val))
           [] args[1].type = "INTEGER" -> Mk(st, "FLOAT", Exp(<<args[1].val, 1>>))
           [] OTHER -> newError(st, "argument to 'exp' must be a number")

BuiltinFn(name, args, st) ==
    CASE name = "len" -> BuiltinLen(args, st)
      [] name = "puts" -> BuiltinPuts(args, st)
      [] name = "first" -> BuiltinFirst(args, st)
      [] name = "last" -> BuiltinLast(args, st)
      [] name = "rest" -> BuiltinRest(args, st)
      [] name = "push" -> BuiltinPush(args, st)
      [] name = "pop" -> BuiltinPop(args, st)
      [] name = "join" -> BuiltinJoin(args, st)
      [] name = "random" -> BuiltinRandom(args, st)
      [] name = "exp" -> BuiltinExp(args, st)

(***************************************************************************)
(* Evaluator (evaluator package).  Eval(node, env, st) returns [r, st]:    *)
(* the object (NIL for Go's nil, a Panic for a host fault) and the state   *)
(* st = [envs, objs, trace, order] after it.  trace lists every node Eval  *)
(* was called on, in call order.                                           *)
(***************************************************************************)
IsNil(o) == o.type = "nil"
isError(o) == o.type = "ERROR"
Stop(o) == IsPanic(o) \/ isError(o)

nativeBoolToBooleanObject(input) == IF input THEN TRUE_OBJ ELSE FALSE_OBJ

isTruthy(obj) ==
    IF SameObj(obj, NULL) THEN FALSE
    ELSE IF SameObj(obj, TRUE_OBJ) THEN TRUE
    ELSE IF SameObj(obj, FALSE_OBJ) THEN FALSE
    ELSE TRUE

evalBangOperatorExpression(right, st) ==
    IF SameObj(right, TRUE_OBJ) THEN Ret(FALSE_OBJ, st)
    ELSE IF SameObj(right, FALSE_OBJ) THEN Ret(TRUE_OBJ, st)
    ELSE IF SameObj(right, NULL) THEN Ret(TRUE_OBJ, st)
    ELSE Ret(FALSE_OBJ, st)

evalMinusPrefixOperatorExpression(right, st) ==
    IF IsNil(right) THEN Ret(NilDeref, st)
    ELSE IF right.type # "INTEGER" /\ right.type # "FLOAT"
    THEN newError(st, "unknown operator: -" \o right.type)
    ELSE IF right.type = "FLOAT" THEN Mk(st, "FLOAT", FNeg(right.val))
    ELSE Mk(st, "INTEGER", -right.val)

evalPrefixExpression(operator, right, st) ==
    CASE operator = "!" -> evalBangOperatorExpression(right, st)
      [] operator = "-" -> evalMinusPrefixOperatorExpression(right, st)
      [] OTHER -> IF IsNil(right) THEN Ret(NilDeref, st)
                  ELSE newError(st, "unknown operator: " \o operator \o right.type)

unknownOperator(operator, left, right, st) ==
    newError(st, "unknown operator: " \o left.type \o " " \o operator \o " " \o right.type)

evalIntegerInfixExpression(operator, left, right, st) ==
    LET leftVal == left.val
        rightVal == right.val
    IN CASE operator = "+" -> Mk(st, "INTEGER", leftVal + rightVal)
         [] operator = "-" -> Mk(st, "INTEGER", leftVal - rightVal)
         [] operator = "*" -> Mk(st, "INTEGER", leftVal * rightVal)
         [] operator = "/" -> IF rightVal = 0 THEN Ret(DivideByZero, st)
                              ELSE Mk(st, "INTEGER", GoDiv(leftVal, rightVal))
         [] operator = "<" -> Ret(nativeBoolToBooleanObject(leftVal < rightVal), st)
         [] operator = ">" -> Ret(nativeBoolToBooleanObject(leftVal > rightVal), st)
         [] operator = "==" -> Ret(nativeBoolToBooleanObject(leftVal = rightVal), st)
         [] operator = "!=" -> Ret(nativeBoolToBooleanObject(leftVal # rightVal), st)
         [] OTHER -> unknownOperator(operator, left, right, st)

evalFloatInfixExpression(operator, left, right, st) ==
    LET leftVal == left.val
        rightVal == right.val
    IN CASE operator = "+" -> Mk(st, "FLOAT", FAdd(leftVal, rightVal))
         [] operator = "-" -> Mk(st, "FLOAT", FSub(leftVal, rightVal))
         [] operator = "*" -> Mk(st, "FLOAT", FMul(leftVal, rightVal))
         [] operator = "/" -> Mk(st, "FLOAT", FDiv(leftVal, rightVal))
         [] operator = "<" -> Ret(nativeBoolToBooleanObject(FLess(leftVal, rightVal)), st)
         [] operator = ">" -> Ret(nativeBoolToBooleanObject(FLess(rightVal, leftVal)), st)
         [] operator = "==" -> Ret(nativeBoolToBooleanObject(FEq(leftVal, rightVal)), st)
         [] operator = "!=" -> Ret(nativeBoolToBooleanObject(~FEq(leftVal, rightVal)), st)
         [] OTHER -> unknownOperator(operator, left, right, st)

evalStringInfixExpression(operator, left, right, st) ==
    IF operator = "+" THEN Mk(st, "STRING", left.val \o right.val)
    ELSE unknownOperator(operator, left, right, st)

evalInfixExpression(operator, left, right, st) ==
    IF IsNil(left) THEN Ret(NilDeref, st)
    ELSE IF left.type = "INTEGER" /\ IsNil(right) THEN Ret(NilDeref, st)
    ELSE IF left.type = "INTEGER" /\ right.type = "INTEGER"
    THEN evalIntegerInfixExpression(operator, left, right, st)
    ELSE IF left.type = "FLOAT" /\ IsNil(right) THEN Ret(NilDeref, st)
    ELSE IF left.type = "FLOAT" /\ right.type = "FLOAT"
    THEN evalFloatInfixExpression(operator, left, right, st)
    ELSE IF operator = "==" THEN Ret(nativeBoolToBooleanObject(SameObj(left, right)), st)
    ELSE IF operator = "!=" THEN Ret(nativeBoolToBooleanObject(~SameObj(left, right)), st)
    ELSE IF IsNil(right) THEN Ret(NilDeref, st)
    ELSE IF left.type # right.type
    THEN newError(st, "type mismatch: " \o left.type \o " " \o operator \o " " \o right.type)
    ELSE IF left.type = "STRING" /\ right.type = "STRING"
    THEN evalStringInfixExpression(operator, left, right, st)
    ELSE unknownOperator(operator, left, right, st)

\* The evaluator's own builtins map.
builtins == {"len", "first", "last", "rest", "push", "puts"}

evalIdentifier(node, env, st) ==
    IF EnvHas(st.envs, env, node.Value) THEN Ret(EnvGet(st.envs, env, node.Value), st)
    ELSE IF node.Value \in builtins THEN Ret(GetBuiltInByName(node.Value), st)
    ELSE newError(st, "identifier not found: " \o node.Value)

evalArrayIndexExpression(array, index, st) ==
    LET idx == index.val
        max == Len(Elements(st, array)) - 1
    IN IF idx < 0 \/ idx > max THEN Ret(NULL, st)
       ELSE Ret(Elements(st, array)[idx + 1], st)

evalHashIndexExpression(hash, index, st) ==
    IF IsNil(index) THEN Ret(NilDeref, st)
    ELSE IF ~Hashable(index) THEN newError(st, "unusable as hash key: " \o index.type)
    ELSE IF HashKey(index) \notin DOMAIN hash.val THEN Ret(NULL, st)
    ELSE Ret(hash.val[HashKey(index)].Value, st)

evalIndexExpression(left, index, st) ==
    IF IsNil(left) THEN Ret(NilDeref, st)
    ELSE IF left.type = "ARRAY" /\ IsNil(index) THEN Ret(NilDeref, st)
    ELSE IF left.type = "ARRAY" /\ index.type = "INTEGER"
    THEN evalArrayIndexExpression(left, index, st)
    ELSE IF left.type = "HASH" THEN evalHashIndexExpression(left, index, st)
    ELSE newError(st, "index operator not supported: " \o left.type)

unwrapReturnValue(obj) == IF obj.type = "RETURN_VALUE" THEN obj.val ELSE obj

\* extendFunctionEnv: a new environment enclosed by fn.Env in which each
\* parameter is set to args[paramIdx]; index out of range when args is shorter.
RECURSIVE bindParameters(_, _, _, _, _)
bindParameters(params, args, paramIdx, env, st) ==
    IF paramIdx > Len(params) THEN Ret(NIL, st)
    ELSE IF paramIdx > Len(args) THEN Ret(IndexOutOfRange, st)
    ELSE bindParameters(params, args, paramIdx + 1, env,
                        EnvSet(st, env, params[paramIdx], args[paramIdx]))

extendFunctionEnv(fn, args, st) ==
    LET s1 == NewEnclosedEnvironment(st, fn.val.Env)
    IN bindParameters(fn.val.Parameters, args, 1, Len(s1.envs), s1)

RECURSIVE Eval(_, _, _)
RECURSIVE evalProgramFrom(_, _, _, _, _)
RECURSIVE evalBlockStatementFrom(_, _, _, _, _)
RECURSIVE evalExpressionsFrom(_, _, _, _, _)
RECURSIVE evalAllExpressionsFrom(_, _, _, _, _)
RECURSIVE evalHashLiteralFrom(_, _, _, _, _)

\* evalProgram: a ReturnValue is unwrapped, an Error ends the program.
evalProgramFrom(stmts, i, env, st, result) ==
    IF i > Len(stmts) THEN Ret(result, st)
    ELSE LET x == Eval(stmts[i], env, st)
         IN IF IsPanic(x.r) THEN x
            ELSE IF x.r.type = "RETURN_VALUE" THEN Ret(x.r.val, x.st)
            ELSE IF x.r.type = "ERROR" THEN x
            ELSE evalProgramFrom(stmts, i + 1, env, x.st, x.r)

\* A test that stops a block at an Error only.
blockStopsAtError(result) ==
    IF IsNil(result) THEN NilDeref
    ELSE IF result.type = "ERROR" THEN TRUE_OBJ
    ELSE FALSE_OBJ

\* The test of evalBlockStatement:
\*   result != nil && result.Type() == RETURN_VALUE_OBJ || result.Type() == ERROR_OBJ
\* calls Type() on a nil result.
blockStops(result) ==
    IF IsNil(result) THEN NilDeref
    ELSE IF result.type = "RETURN_VALUE" \/ result.type = "ERROR" THEN TRUE_OBJ
    ELSE FALSE_OBJ

evalBlockStatementFrom(stmts, i, env, st, result) ==
    IF i > Len(stmts) THEN Ret(result, st)
    ELSE LET x == Eval(stmts[i], env, st)
             stop == blockStops(x.r)
         IN IF IsPanic(x.r) THEN x
            ELSE IF IsPanic(stop) THEN Ret(stop, x.st)
            ELSE IF stop.val THEN x
            ELSE evalBlockStatementFrom(stmts, i + 1, env, x.st, x.r)

\* An evalExpressions that evaluates every expression of the list, whatever
\* the ones before it yielded.
evalAllExpressionsFrom(exps, i, env, st, result) ==
    IF i > Len(exps) THEN [list |-> result, st |-> st]
    ELSE LET x == Eval(exps[i], env, st)
         IN IF IsPanic(x.r) THEN [list |-> <<x.r>>, st |-> x.st]
            ELSE evalAllExpressionsFrom(exps, i + 1, env, x.st, Append(result, x.r))

\* evalExpressions: [list, st]; an Error (or a host fault) ends the list and is
\* returned as its only element.
evalExpressionsFrom(exps, i, env, st, result) ==
    IF i > Len(exps) THEN [list |-> result, st |-> st]
    ELSE LET x == Eval(exps[i], env, st)
         IN IF Stop(x.r) THEN [list |-> <<x.r>>, st |-> x.st]
            ELSE evalExpressionsFrom(exps, i + 1, env, x.st, Append(result, x.r))

evalIfExpression(ie, env, st) ==
    LET condition == Eval(ie.Condition, env, st)
    IN IF Stop(condition.r) THEN condition
       ELSE IF isTruthy(condition.r) THEN Eval(ie.Consequence, env, condition.st)
       ELSE IF ie.Alternative.k # "nil" THEN Eval(ie.Alternative, env, condition.st)
       ELSE Ret(NULL, condition.st)

\* evalHashLiteral: the pairs in the order Go's map iteration gives them.
evalHashLiteralFrom(pairs, i, env, st, acc) ==
    IF i > Len(pairs) THEN Mk(st, "HASH", acc)
    ELSE LET pair == pairs[st.order[Len(pairs)][i]]
             key == Eval(pair[1], env, st)
         IN IF Stop(key.r) THEN key
            ELSE IF IsNil(key.r) THEN Ret(NilDeref, key.st)
            ELSE IF ~Hashable(key.r)
            THEN newError(key.st, "unusable as hash key: " \o key.r.type)
            ELSE LET value == Eval(pair[2], env, key.st)
                 IN IF Stop(value.r) THEN value
                    ELSE evalHashLiteralFrom(pairs, i + 1, env, value.st,
                            (HashKey(key.r) :> HashPair(key.r, value.r)) @@ acc)

applyFunction(fn, args, st) ==
    CASE fn.type = "FUNCTION" ->
            LET ext == extendFunctionEnv(fn, args, st)
            IN IF IsPanic(ext.r) THEN ext
               ELSE LET evaluated == Eval(fn.val.Body, Len(ext.st.envs), ext.st)
                    IN Ret(unwrapReturnValue(evaluated.r), evaluated.st)
      [] fn.type = "BUILTIN" ->
            LET result == BuiltinFn(fn.val, args, st)
            IN IF IsNil(result.r) THEN Ret(NULL, result.st) ELSE result
      [] IsNil(fn) -> Ret(NilDeref, st)
      [] OTHER -> newError(st, "not a function: " \o fn.type)

\* The host's files: a path and the program that lexer.New, parser.New and
\* ParseProgram make of the file's text.
\*   lets.mky    let a = 1; let test = fn(x) { x };
\*   value.mky   let a = 2; 5;
\*   empty.mky
\*   fails.mky   let a = 1; 1 + true; let c = 2;
FileSystem ==
    <<<<"lets.mky",
        Program(<<LetStatement("a", IntegerLiteral(1)),
                  LetStatement("test",
                      FunctionLiteral(<<"x">>,
                          BlockStatement(<<ExpressionStatement(Identifier("x"))>>),
                          ""))>>)>>,
      <<"value.mky",
        Program(<<LetStatement("a", IntegerLiteral(2)),
                  ExpressionStatement(IntegerLiteral(5))>>)>>,
      <<"empty.mky", Program(<<>>)>>,
      <<"fails.mky",
        Program(<<LetStatement("a", IntegerLiteral(1)),
                  ExpressionStatement(InfixExpression("+", IntegerLiteral(1),
                                                      Boolean(TRUE))),
                  LetStatement("c", IntegerLiteral(2))>>)>>>>

\* os.ReadFile followed by the parse: [err, program], err the host's message.
ReadFile(path) ==
    IF \E i \in 1..Len(FileSystem) : FileSystem[i][1] = path
    THEN [err |-> "", program |-> Lookup(FileSystem, path)]
    ELSE [err |-> "open " \o path \o ": no such file or directory",
          program |-> Program(<<>>)]

\* An import that evaluates the file in an environment of its own.
evalImportLiteralEnclosed(node, env, st) ==
    LET file == ReadFile(node.Path)
    IN IF file.err # "" THEN newError(st, "error reading import file: " \o file.err)
       ELSE LET s1 == NewEnclosedEnvironment(st, env)
                evaluated == Eval(file.program, Len(s1.envs), s1)
            IN IF ~IsNil(evaluated.r) THEN evaluated ELSE Ret(NULL, evaluated.st)

evalImportLiteral(node, env, st) ==
    LET file == ReadFile(node.Path)
    IN IF file.err # "" THEN newError(st, "error reading import file: " \o file.err)
       ELSE LET evaluated == Eval(file.program, env, st)
            IN IF ~IsNil(evaluated.r) THEN evaluated ELSE Ret(NULL, evaluated.st)

Eval(node, env, st0) ==
    LET st == [st0 EXCEPT !.trace = Append(@, node)]
    IN CASE node.k = "Program" -> evalProgramFrom(node.Statements, 1, env, st, NIL)
         [] node.k = "ExpressionStatement" -> Eval(node.Expression, env, st)
         [] node.k = "IntegerLiteral" -> Mk(st, "INTEGER", node.Value)
         [] node.k = "FloatLiteral" -> Mk(st, "FLOAT", node.Value)
         [] node.k = "Boolean" -> Ret(nativeBoolToBooleanObject(node.Value), st)
         [] node.k = "PrefixExpression" ->
                LET right == Eval(node.Right, env, st)
                IN IF Stop(right.r) THEN right
                   ELSE evalPrefixExpression(node.Operator, right.r, right.st)
         [] node.k = "InfixExpression" ->
                LET left == Eval(node.Left, env, st)
                IN IF Stop(left.r) THEN left
                   ELSE LET right == Eval(node.Right, env, left.st)
                        IN IF Stop(right.r) THEN right
                           ELSE evalInfixExpression(node.Operator, left.r, right.r, right.st)
         [] node.k = "BlockStatement" ->
                evalBlockStatementFrom(node.Statements, 1, env, st, NIL)
         [] node.k = "IfExpression" -> evalIfExpression(node, env, st)
         [] node.k = "ReturnStatement" ->
                LET val == Eval(node.ReturnValue, env, st)
                IN IF Stop(val.r) THEN val
                   ELSE Mk(val.st, "RETURN_VALUE", val.r)
         [] node.k = "LetStatement" ->
                LET val == Eval(node.Value, env, st)
                IN IF Stop(val.r) THEN val
                   ELSE Ret(NIL, EnvSet(val.st, env, node.Name, val.r))
         [] node.k = "Identifier" -> evalIdentifier(node, env, st)
         [] node.k = "FunctionLiteral" ->
                Mk(st, "FUNCTION",
                   [Parameters |-> node.Parameters, Body |-> node.Body, Env |-> env])
         [] node.k = "CallExpression" ->
                LET function == Eval(node.Function, env, st)
                IN IF Stop(function.r) THEN function
                   ELSE LET args == evalExpressionsFrom(node.Arguments, 1, env,
                                                        function.st, <<>>)
                        IN IF Len(args.list) = 1 /\ Stop(args.list[1])
                           THEN Ret(args.list[1], args.st)
                           ELSE applyFunction(function.r, args.list, args.st)
         [] node.k = "StringLiteral" -> Mk(st, "STRING", node.Value)
         [] node.k = "ArrayLiteral" ->
                LET elements == evalExpressionsFrom(node.Elements, 1, env, st, <<>>)
                IN IF Len(elements.list) = 1 /\ Stop(elements.list[1])
                   THEN Ret(elements.list[1], elements.st)
                   ELSE MkArray(elements.st, elements.list)
         [] node.k = "IndexExpression" ->
                LET left == Eval(node.Left, env, st)
                IN IF Stop(left.r) THEN left
                   ELSE LET index == Eval(node.Index, env, left.st)
                        IN IF Stop(index.r) THEN index
                           ELSE evalIndexExpression(left.r, index.r, index.st)
         [] node.k = "HashLiteral" -> evalHashLiteralFrom(node.Pairs, 1, env, st, <<>>)
         [] node.k = "ImportLiteral" -> evalImportLiteral(node, env, st)
         [] OTHER -> Ret(NIL, st)

\* A fresh evaluator run: one global environment, nothing allocated.
NewState(ord) == [envs |-> <<NewEnvironment>>, objs |-> <<>>, trace |-> <<>>, order |-> ord]

(***************************************************************************)
(* Bytecode (code package).  An instruction stream is a sequence of byte   *)
(* slots [op, v]: an opcode byte carries its name in op, an operand byte   *)
(* has op = "" and its value in v.  Positions are Go's, zero-based: the    *)
(* byte at position p is ins[p + 1].                                       *)
(***************************************************************************)

OpcodeSlot(op) == [op |-> op, v |-> 0]
ByteSlot(b) == [op |-> "", v |-> b]

OperandWidths(op) ==
    CASE op \in {"OpConstant", "OpJumpNotTruthy", "OpJump", "OpSetGlobal", "OpGetGlobal",
                 "OpArray", "OpHash", "OpTensor"} -> <<2>>
      [] op \in {"OpSetLocal", "OpGetLocal", "OpGetBuiltin", "OpGetFree", "OpCall"} -> <<1>>
      [] op = "OpClosure" -> <<2, 1>>
      [] OTHER -> <<>>

\* An operand of the given width, most significant byte first.
PutOperand(o, width) ==
    IF width = 2 THEN <<ByteSlot((o \div 256) % 256), ByteSlot(o % 256)>>
    ELSE <<ByteSlot(o % 256)>>

RECURSIVE MakeOperands(_, _, _)
MakeOperands(widths, operands, i) ==
    IF i > Len(widths) \/ i > Len(operands) THEN <<>>
    ELSE PutOperand(operands[i], widths[i]) \o MakeOperands(widths, operands, i + 1)

Make(op, operands) == <<OpcodeSlot(op)>> \o MakeOperands(OperandWidths(op), operands, 1)

\* ReadUint16(ins[pos:]) and ReadUint8(ins[pos:]).
ReadUint16(ins, pos) == (ins[pos + 1].v * 256) + ins[pos + 2].v
ReadUint8(ins, pos) == ins[pos + 1].v

(***************************************************************************)
(* Symbol table (compiler package).  The tables of the scopes being        *)
(* compiled form a stack: tables[1] is the global table and tables[i - 1]  *)
(* is the Outer of tables[i].                                              *)
(***************************************************************************)

Symbol(name, scope, index) == [Name |-> name, Scope |-> scope, Index |-> index]

NewSymbolTable == [store |-> <<>>, numDefinitions |-> 0, FreeSymbols |-> <<>>]

NewEnclosedSymbolTable(tables) == Append(tables, NewSymbolTable)

\* A Define whose counter is shared with the enclosing table.
DefineCountingOuter(tables, name) ==
    LET s == Len(tables)
        symbol == Symbol(name, IF s = 1 THEN "GLOBAL" ELSE "LOCAL",
                         tables[s].numDefinitions
                             + (IF s > 1 THEN tables[s - 1].numDefinitions ELSE 0))
    IN [tables EXCEPT ![s].store = StoreSet(@, name, symbol),
                      ![s].numDefinitions = @ + 1]

\* Define: Global in the global table, Local elsewhere, the next index.
Define(tables, name) ==
    LET s == Len(tables)
        symbol == Symbol(name, IF s = 1 THEN "GLOBAL" ELSE "LOCAL",
                         tables[s].numDefinitions)
    IN [tables EXCEPT ![s].store = StoreSet(@, name, symbol),
                      ![s].numDefinitions = @ + 1]

DefinedSymbol(tables, name) == Lookup(tables[Len(tables)].store, name)

DefineBuiltin(tables, index, name) ==
    [tables EXCEPT ![Len(tables)].store = StoreSet(@, name, Symbol(name, "BUILTIN", index))]

DefineFunctionName(tables, name) ==
    [tables EXCEPT ![Len(tables)].store = StoreSet(@, name, Symbol(name, "FUNCTION", 0))]

\* A defineFree that hands out the index after the appended symbol.
defineFreeAfterAppend(tables, s, original) ==
    [tables EXCEPT ![s].FreeSymbols = Append(@, original),
                   ![s].store = StoreSet(@, original.Name,
                                         Symbol(original.Name, "FREE",
                                                Len(tables[s].FreeSymbols) + 1))]

\* defineFree: record the original symbol, hand out the next Free index.
defineFree(tables, s, original) ==
    [tables EXCEPT ![s].FreeSymbols = Append(@, original),
                   ![s].store = StoreSet(@, original.Name,
                                         Symbol(original.Name, "FREE",
                                                Len(tables[s].FreeSymbols)))]

\* Resolve in table s: [ok, symbol, tables].
RECURSIVE ResolveIn(_, _, _)
ResolveIn(tables, s, name) ==
    IF \E i \in 1..Len(tables[s].store) : tables[s].store[i][1] = name
    THEN [ok |-> TRUE, symbol |-> Lookup(tables[s].store, name), tables |-> tables]
    ELSE IF s = 1
    THEN [ok |-> FALSE, symbol |-> Symbol(name, "", 0), tables |-> tables]
    ELSE LET obj == ResolveIn(tables, s - 1, name)
         IN IF ~obj.ok THEN obj
            ELSE IF obj.symbol.Scope \in {"GLOBAL", "BUILTIN"} THEN obj
            ELSE LET defined == defineFree(obj.tables, s, obj.symbol)
                 IN [ok |-> TRUE, symbol |-> Lookup(defined[s].store, name),
                     tables |-> defined]

Resolve(tables, name) == ResolveIn(tables, Len(tables), name)

\* The tables a client holds, each with its Outer (0 for nil), and the
\* symbols Define has returned, in order, each with the table it was
\* defined in, and the last call of Resolve with the tables before and after
\* it.  No tables in the runs that do not use them directly.
NoSymbolTables == [tables |-> <<>>, defined |-> <<>>, resolved |-> <<>>]

\* NewSymbolTable()
RootSymbolTable ==
    [NoSymbolTables EXCEPT !.tables = <<[table |-> NewSymbolTable, Outer |-> 0]>>]

\* The table h with its enclosing tables, outermost first.
RECURSIVE OuterChain(_, _)
OuterChain(held, h) ==
    IF held[h].Outer = 0 THEN <<held[h].table>>
    ELSE Append(OuterChain(held, held[h].Outer), held[h].table)

\* NewEnclosedSymbolTable(outer) for a table the client holds.
EncloseTable(s, outer) ==
    LET chain == NewEnclosedSymbolTable(OuterChain(s.tables, outer))
    IN [s EXCEPT !.tables = Append(@, [table |-> chain[Len(chain)], Outer |-> outer])]

\* The handles of the tables of OuterChain(held, h), outermost first.
RECURSIVE OuterHandles(_, _)
OuterHandles(held, h) ==
    IF held[h].Outer = 0 THEN <<h>>
    ELSE Append(OuterHandles(held, held[h].Outer), h)

\* h.DefineBuiltin(index, name)
DefineBuiltinIn(s, h, index, name) ==
    LET chain == DefineBuiltin(OuterChain(s.tables, h), index, name)
    IN [s EXCEPT !.tables[h].table = chain[Len(chain)]]

\* h.Resolve(name): the enclosing tables it records free symbols in are the
\* ones the client holds.
ResolveInTable(s, h, name) ==
    LET handles == OuterHandles(s.tables, h)
        r == Resolve(OuterChain(s.tables, h), name)
        after == [i \in 1..Len(s.tables) |->
                     IF \E k \in 1..Len(handles) : handles[k] = i
                     THEN [s.tables[i] EXCEPT !.table =
                              r.tables[CHOOSE k \in 1..Len(handles) : handles[k] = i]]
                     ELSE s.tables[i]]
    IN [s EXCEPT !.tables = after,
                 !.resolved = <<[table |-> h, name |-> name, ok |-> r.ok,
                                 symbol |-> r.symbol, before |-> s.tables,
                                 after |-> after]>>]

\* h.Define(name)
DefineIn(s, h, name) ==
    LET chain == Define(OuterChain(s.tables, h), name)
    IN [s EXCEPT !.tables[h].table = chain[Len(chain)],
                 !.defined = Append(@, [table |-> h,
                                        symbol |-> DefinedSymbol(chain, name)])]

(***************************************************************************)
(* Compiler (compiler package).  A compiler c is [constants, scopes,       *)
(* symbolTable, objs, err]: scopes is the stack of compilation scopes,     *)
(* symbolTable the stack of their tables, objs the objects allocated so    *)
(* far, err the error Compile returned ("" for nil).                       *)
(***************************************************************************)
EmittedInstruction(op, pos) == [Opcode |-> op, Position |-> pos]

CompilationScope ==
    [instructions |-> <<>>,
     lastInstruction |-> EmittedInstruction("", 0),
     previousInstruction |-> EmittedInstruction("", 0)]

RECURSIVE DefineBuiltinsFrom(_, _)
DefineBuiltinsFrom(tables, i) ==
    IF i > Len(BuiltinNames) THEN tables
    ELSE DefineBuiltinsFrom(DefineBuiltin(tables, i - 1, BuiltinNames[i]), i + 1)

NewCompiler ==
    [constants |-> <<>>,
     scopes |-> <<CompilationScope>>,
     symbolTable |-> DefineBuiltinsFrom(<<NewSymbolTable>>, 1),
     objs |-> <<>>,
     err |-> ""]

currentInstructions(c) == c.scopes[Len(c.scopes)].instructions

\* emit: append the instruction, remember it as the last one; its position.
emit(c, op, operands) ==
    LET s == Len(c.scopes)
        pos == Len(c.scopes[s].instructions)
    IN [c EXCEPT !.scopes[s] =
            [instructions |-> @.instructions \o Make(op, operands),
             lastInstruction |-> EmittedInstruction(op, pos),
             previousInstruction |-> @.lastInstruction]]

lastInstructionIs(c, op) ==
    /\ Len(currentInstructions(c)) > 0
    /\ c.scopes[Len(c.scopes)].lastInstruction.Opcode = op

lastInstructionIsPop(c) == lastInstructionIs(c, "OpPop")

removeLastPop(c) ==
    LET s == Len(c.scopes)
    IN [c EXCEPT !.scopes[s] =
            [instructions |-> SubSeq(@.instructions, 1, @.lastInstruction.Position),
             lastInstruction |-> @.previousInstruction,
             previousInstruction |-> @.previousInstruction]]

replaceInstruction(c, pos, newInstruction) ==
    [c EXCEPT !.scopes[Len(c.scopes)].instructions =
        [i \in 1..Len(@) |->
            IF i > pos /\ i <= pos + Len(newInstruction)
            THEN newInstruction[i - pos] ELSE @[i]]]

changeOperand(c, opPos, operand) ==
    replaceInstruction(c, opPos, Make(currentInstructions(c)[opPos + 1].op, <<operand>>))

replaceLastPopWithReturn(c) ==
    LET s == Len(c.scopes)
        lastPos == c.scopes[s].lastInstruction.Position
        r == replaceInstruction(c, lastPos, Make("OpReturnValue", <<>>))
    IN [r EXCEPT !.scopes[s].lastInstruction.Opcode = "OpReturnValue"]

\* addConstant: the compiler with obj allocated and appended; its index is
\* the old length of the pool.
addConstant(c, t, v) ==
    [c EXCEPT !.constants = Append(@, NewObj(c, t, v)), !.objs = Append(@, <<>>)]

emitConstant(c, t, v) == emit(addConstant(c, t, v), "OpConstant", <<Len(c.constants)>>)

enterScope(c) ==
    [c EXCEPT !.scopes = Append(@, CompilationScope),
              !.symbolTable = NewEnclosedSymbolTable(@)]

leaveScope(c) ==
    [c EXCEPT !.scopes = SubSeq(@, 1, Len(@) - 1),
              !.symbolTable = SubSeq(@, 1, Len(@) - 1)]

loadSymbol(c, sym) ==
    CASE sym.Scope = "GLOBAL" -> emit(c, "OpGetGlobal", <<sym.Index>>)
      [] sym.Scope = "LOCAL" -> emit(c, "OpGetLocal", <<sym.Index>>)
      [] sym.Scope = "BUILTIN" -> emit(c, "OpGetBuiltin", <<sym.Index>>)
      [] sym.Scope = "FREE" -> emit(c, "OpGetFree", <<sym.Index>>)
      [] sym.Scope = "FUNCTION" -> emit(c, "OpCurrentClosure", <<>>)

RECURSIVE loadSymbolsFrom(_, _, _)
loadSymbolsFrom(c, syms, i) ==
    IF i > Len(syms) THEN c ELSE loadSymbolsFrom(loadSymbol(c, syms[i]), syms, i + 1)

RECURSIVE defineParametersFrom(_, _, _)
defineParametersFrom(tables, params, i) ==
    IF i > Len(params) THEN tables
    ELSE defineParametersFrom(Define(tables, params[i]), params, i + 1)

InfixOpcode(operator) ==
    CASE operator = "+" -> "OpAdd"
      [] operator = "-" -> "OpSub"
      [] operator = "*" -> "OpMul"
      [] operator = "/" -> "OpDiv"
      [] operator = ">" -> "OpGreaterThan"
      [] operator = "==" -> "OpEqual"
      [] operator = "!=" -> "OpNotEqual"
      [] OTHER -> ""

CompileError(c, msg) == [c EXCEPT !.err = msg]

RECURSIVE Compile(_, _)
RECURSIVE CompileAllFrom(_, _, _)
RECURSIVE CompilePairsFrom(_, _, _)

\* Compile each node in turn, stopping at the first error.
CompileAllFrom(c, nodes, i) ==
    IF i > Len(nodes) \/ c.err # "" THEN c
    ELSE CompileAllFrom(Compile(nodes[i], c), nodes, i + 1)

\* The pairs of a hash literal, key then value.  They are compiled in the
\* order the literal lists them, which for the literals of this model is
\* the sorted order of the keys' string forms.
CompilePairsFrom(c, pairs, i) ==
    IF i > Len(pairs) \/ c.err # "" THEN c
    ELSE LET key == Compile(pairs[i][1], c)
         IN IF key.err # "" THEN key
            ELSE CompilePairsFrom(Compile(pairs[i][2], key), pairs, i + 1)

CompileIfExpression(node, c0) ==
    LET cond == Compile(node.Condition, c0)
        jumpNotTruthyPos == Len(currentInstructions(cond))
        jnt == emit(cond, "OpJumpNotTruthy", <<9999>>)
        cons == Compile(node.Consequence, jnt)
        cons1 == IF lastInstructionIsPop(cons) THEN removeLastPop(cons) ELSE cons
        jumpPos == Len(currentInstructions(cons1))
        jmp == emit(cons1, "OpJump", <<9999>>)
        afterConsequencePos == Len(currentInstructions(jmp))
        patched == changeOperand(jmp, jumpNotTruthyPos, afterConsequencePos)
        alt == IF node.Alternative.k = "nil" THEN emit(patched, "OpNull", <<>>)
               ELSE Compile(node.Alternative, patched)
        alt1 == IF node.Alternative.k # "nil" /\ alt.err = "" /\ lastInstructionIsPop(alt)
                THEN removeLastPop(alt) ELSE alt
        afterAlternativePos == Len(currentInstructions(alt1))
    IN IF cond.err # "" THEN cond
       ELSE IF cons.err # "" THEN cons
       ELSE IF alt.err # "" THEN alt
       ELSE changeOperand(alt1, jumpPos, afterAlternativePos)

CompileLetStatement(node, c0) ==
    LET named == IF node.Value.k = "FunctionLiteral"
                 THEN [c0 EXCEPT !.symbolTable = DefineFunctionName(@, node.Name)]
                 ELSE c0
        value == Compile(node.Value, named)
        tables == Define(value.symbolTable, node.Name)
        symbol == DefinedSymbol(tables, node.Name)
        defined == [value EXCEPT !.symbolTable = tables]
    IN IF value.err # "" THEN value
       ELSE IF symbol.Scope = "GLOBAL" THEN emit(defined, "OpSetGlobal", <<symbol.Index>>)
       ELSE emit(defined, "OpSetLocal", <<symbol.Index>>)

CompileFunctionLiteral(node, c0) ==
    LET entered == enterScope(c0)
        named == IF node.Name # ""
                 THEN [entered EXCEPT !.symbolTable = DefineFunctionName(@, node.Name)]
                 ELSE entered
        params == [named EXCEPT !.symbolTable = defineParametersFrom(@, node.Parameters, 1)]
        body == Compile(node.Body, params)
        body1 == IF lastInstructionIsPop(body) THEN replaceLastPopWithReturn(body) ELSE body
        body2 == IF ~lastInstructionIs(body1, "OpReturnValue")
                 THEN emit(body1, "OpReturn", <<>>) ELSE body1
        freeSymbols == body2.symbolTable[Len(body2.symbolTable)].FreeSymbols
        numLocals == body2.symbolTable[Len(body2.symbolTable)].numDefinitions
        instructions == currentInstructions(body2)
        left == leaveScope(body2)
        loaded == loadSymbolsFrom(left, freeSymbols, 1)
        fn == addConstant(loaded, "COMPILED_FUNCTION",
                          [Instructions |-> instructions,
                           NumLocals |-> numLocals,
                           NumParameters |-> Len(node.Parameters)])
    IN IF body.err # "" THEN body
       ELSE emit(fn, "OpClosure", <<Len(loaded.constants), Len(freeSymbols)>>)

Compile(node, c) ==
    CASE node.k = "Program" -> CompileAllFrom(c, node.Statements, 1)
      [] node.k = "BlockStatement" -> CompileAllFrom(c, node.Statements, 1)
      [] node.k = "ExpressionStatement" ->
            LET e == Compile(node.Expression, c)
            IN IF e.err # "" THEN e ELSE emit(e, "OpPop", <<>>)
      [] node.k = "IfExpression" -> CompileIfExpression(node, c)
      [] node.k = "PrefixExpression" ->
            LET right == Compile(node.Right, c)
            IN IF right.err # "" THEN right
               ELSE IF node.Operator = "!" THEN emit(right, "OpBang", <<>>)
               ELSE IF node.Operator = "-" THEN emit(right, "OpMinus", <<>>)
               ELSE CompileError(right, "unknown operator " \o node.Operator)
      [] node.k = "InfixExpression" ->
            IF node.Operator = "<"
            THEN LET right == Compile(node.Right, c)
                     left == Compile(node.Left, right)
                 IN IF right.err # "" THEN right
                    ELSE IF left.err # "" THEN left
                    ELSE emit(left, "OpGreaterThan", <<>>)
            ELSE LET left == Compile(node.Left, c)
                     right == Compile(node.Right, left)
                 IN IF left.err # "" THEN left
                    ELSE IF right.err # "" THEN right
                    ELSE IF InfixOpcode(node.Operator) = ""
                    THEN CompileError(right, "unknown operator " \o node.Operator)
                    ELSE emit(right, InfixOpcode(node.Operator), <<>>)
      [] node.k = "IntegerLiteral" -> emitConstant(c, "INTEGER", node.Value)
      [] node.k = "FloatLiteral" -> emitConstant(c, "FLOAT", node.Value)
      [] node.k = "StringLiteral" -> emitConstant(c, "STRING", node.Value)
      [] node.k = "Boolean" ->
            IF node.Value THEN emit(c, "OpTrue", <<>>) ELSE emit(c, "OpFalse", <<>>)
      [] node.k = "LetStatement" -> CompileLetStatement(node, c)
      [] node.k = "Identifier" ->
            LET obj == Resolve(c.symbolTable, node.Value)
            IN IF ~obj.ok THEN CompileError(c, "undefined variable " \o node.Value)
               ELSE loadSymbol([c EXCEPT !.symbolTable = obj.tables], obj.symbol)
      [] node.k = "FunctionLiteral" -> CompileFunctionLiteral(node, c)
      [] node.k = "ReturnStatement" ->
            LET value == Compile(node.ReturnValue, c)
            IN IF value.err # "" THEN value ELSE emit(value, "OpReturnValue", <<>>)
      [] node.k = "CallExpression" ->
            LET function == Compile(node.Function, c)
                args == CompileAllFrom(function, node.Arguments, 1)
            IN IF function.err # "" THEN function
               ELSE IF args.err # "" THEN args
               ELSE emit(args, "OpCall", <<Len(node.Arguments)>>)
      [] node.k = "ArrayLiteral" ->
            LET elements == CompileAllFrom(c, node.Elements, 1)
            IN IF elements.err # "" THEN elements
               ELSE emit(elements, "OpArray", <<Len(node.Elements)>>)
      [] node.k = "HashLiteral" ->
            LET pairs == CompilePairsFrom(c, node.Pairs, 1)
            IN IF pairs.err # "" THEN pairs
               ELSE emit(pairs, "OpHash", <<Len(node.Pairs) * 2>>)
      [] node.k = "IndexExpression" ->
            LET left == Compile(node.Left, c)
                index == Compile(node.Index, left)
            IN IF left.err # "" THEN left
               ELSE IF index.err # "" THEN index
               ELSE emit(index, "OpIndex", <<>>)
      [] node.k = "TensorLiteral" ->
            LET shape == Compile(node.Shape, c)
                data == Compile(node.Data, shape)
            IN IF shape.err # "" THEN shape
               ELSE IF data.err # "" THEN data
               ELSE emit(data, "OpTensor", <<0>>)
      [] OTHER -> c

\* Bytecode(): the instructions of the main scope, the constants, and the
\* objects allocated for them.
Bytecode(c) ==
    [Instructions |-> currentInstructions(c), Constants |-> c.constants, objs |-> c.objs]

(***************************************************************************)
(* Virtual machine (vm package).  A machine is [status, err, constants,    *)
(* stack, sp, globals, frames, framesIndex, objs].  stack, globals and     *)
(* frames list the slots written so far; the slots after them hold Go's    *)
(* nil.  status is "running" until Run returns: "done" (nil), "error" (an  *)
(* error, in err) or "panic" (a host fault).                               *)
(***************************************************************************)
StackeSize == 8192
GlobalsSize == 65536
MaxFrames == 4096

NewFrame(cl, basePointer) == [cl |-> cl, ip |-> -1, basePointer |-> basePointer]

\* slots[i] of a Go slice of interfaces of which the first Len(slots) were written.
SlotAt(slots, i) == IF i >= 0 /\ i < Len(slots) THEN slots[i + 1] ELSE NIL

SlotSet(slots, i, o) ==
    [j \in 1..(IF i + 1 > Len(slots) THEN i + 1 ELSE Len(slots)) |->
        IF j = i + 1 THEN o ELSE IF j <= Len(slots) THEN slots[j] ELSE NIL]

\* New: the main closure in frame 0; the constants' objects are allocated.
New(bytecode) ==
    LET st == [objs |-> bytecode.objs]
        mainFn == NewObj(st, "COMPILED_FUNCTION",
                         [Instructions |-> bytecode.Instructions,
                          NumLocals |-> 0, NumParameters |-> 0])
        st1 == Alloc(st, <<>>)
        mainClosure == NewObj(st1, "CLOSURE", [Fn |-> mainFn, Free |-> <<>>])
    IN [status |-> "running", err |-> "",
        constants |-> bytecode.Constants,
        stack |-> <<>>, sp |-> 0,
        globals |-> <<>>,
        frames |-> <<NewFrame(mainClosure, 0)>>, framesIndex |-> 1,
        objs |-> Alloc(st1, <<>>).objs]

Fail(m, msg) == [m EXCEPT !.status = "error", !.err = msg]
Fault(m, p) == [m EXCEPT !.status = "panic", !.err = p.val]

LastPoppedStackElem(m) == SlotAt(m.stack, m.sp)

currentFrame(m) == m.frames[m.framesIndex]
Instructions(f) == f.cl.val.Fn.val.Instructions

pushFrame(m, f) ==
    IF m.framesIndex >= MaxFrames THEN Fault(m, IndexOutOfRange)
    ELSE [m EXCEPT !.frames = SlotSet(@, m.framesIndex, f), !.framesIndex = @ + 1]

push(m, o) ==
    IF m.sp >= StackeSize THEN Fail(m, "stack overflow")
    ELSE IF m.sp < 0 THEN Fault(m, IndexOutOfRange)
    ELSE [m EXCEPT !.stack = SlotSet(@, m.sp, o), !.sp = @ + 1]

\* pop: the popped object is Top(m), the machine after it Drop(m); with an
\* empty stack the index is out of range.
CanPop(m, n) == m.sp - n >= 0
Top(m) == SlotAt(m.stack, m.sp - 1)
Drop(m) == [m EXCEPT !.sp = @ - 1]

\* The result of a builtin or allocation [r, st] pushed on the machine st.
pushRet(x) == push(x.st, x.r)

vmNativeBoolToBooleanObject(input) == IF input THEN True ELSE False

vmIsTruthy(obj) ==
    IF obj.type = "BOOLEAN" THEN obj.val
    ELSE IF obj.type = "NULL" THEN FALSE
    ELSE TRUE

executeBangOperator(m) ==
    IF ~CanPop(m, 1) THEN Fault(m, IndexOutOfRange)
    ELSE LET operand == Top(m)
             m1 == Drop(m)
         IN IF SameObj(operand, True) THEN push(m1, False)
            ELSE IF SameObj(operand, False) THEN push(m1, True)
            ELSE IF SameObj(operand, Null) THEN push(m1, True)
            ELSE push(m1, False)

executeMinusOperator(m) ==
    IF ~CanPop(m, 1) THEN Fault(m, IndexOutOfRange)
    ELSE LET operand == Top(m)
             m1 == Drop(m)
         IN CASE IsNil(operand) -> Fault(m1, NilDeref)
              [] operand.type = "INTEGER" -> pushRet(Mk(m1, "INTEGER", -operand.val))
              [] operand.type = "FLOAT" -> pushRet(Mk(m1, "FLOAT", FNeg(operand.val)))
              [] OTHER -> Fail(m1, "unsupported type for negation: " \o operand.type)

executeIntegerComparison(m, op, left, right) ==
    LET leftVal == left.val
        rightVal == right.val
    IN CASE op = "OpEqual" -> push(m, vmNativeBoolToBooleanObject(leftVal = rightVal))
         [] op = "OpNotEqual" -> push(m, vmNativeBoolToBooleanObject(leftVal # rightVal))
         [] op = "OpGreaterThan" -> push(m, vmNativeBoolToBooleanObject(leftVal > rightVal))
         [] OTHER -> Fail(m, "unknown integer operator: " \o op)

executeComparison(m, op) ==
    IF ~CanPop(m, 2) THEN Fault(m, IndexOutOfRange)
    ELSE LET right == Top(m)
             left == Top(Drop(m))
             m2 == Drop(Drop(m))
         IN IF IsNil(left) \/ IsNil(right) THEN Fault(m2, NilDeref)
            ELSE IF left.type = "INTEGER" /\ right.type = "INTEGER"
            THEN executeIntegerComparison(m2, op, left, right)
            ELSE CASE op = "OpEqual" ->
                        push(m2, vmNativeBoolToBooleanObject(SameObj(right, left)))
                   [] op = "OpNotEqual" ->
                        push(m2, vmNativeBoolToBooleanObject(~SameObj(right, left)))
                   [] OTHER ->
                        Fail(m2, "unsupported types for comparison: "
                                 \o left.type \o " " \o right.type)

executeBinaryIntegerOperation(m, op, left, right) ==
    LET leftVal == left.val
        rightVal == right.val
    IN CASE op = "OpAdd" -> pushRet(Mk(m, "INTEGER", leftVal + rightVal))
         [] op = "OpSub" -> pushRet(Mk(m, "INTEGER", leftVal - rightVal))
         [] op = "OpMul" -> pushRet(Mk(m, "INTEGER", leftVal * rightVal))
         [] op = "OpDiv" -> IF rightVal = 0 THEN Fault(m, DivideByZero)
                          ELSE pushRet(Mk(m, "INTEGER", GoDiv(leftVal, rightVal)))
         [] OTHER -> Fail(m, "unknown integer operator: " \o op)

executeBinaryFloatOperation(m, op, left, right) ==
    LET leftVal == left.val
        rightVal == right.val
    IN CASE op = "OpAdd" -> pushRet(Mk(m, "FLOAT", FAdd(leftVal, rightVal)))
         [] op = "OpSub" -> pushRet(Mk(m, "FLOAT", FSub(leftVal, rightVal)))
         [] op = "OpMul" -> pushRet(Mk(m, "FLOAT", FMul(leftVal, rightVal)))
         [] op = "OpDiv" -> pushRet(Mk(m, "FLOAT", FDiv(leftVal, rightVal)))
         [] OTHER -> Fail(m, "unknown integer operator: " \o op)

executeBinaryStringOperation(m, op, left, right) ==
    IF op # "OpAdd" THEN Fail(m, "unknown string operator: " \o op)
    ELSE pushRet(Mk(m, "STRING", left.val \o right.val))

\* shapesEqual: same length and the same value at every position.
shapesEqual(shape1, shape2) ==
    /\ Len(shape1) = Len(shape2)
    /\ \A i \in 1..Len(shape1) : shape1[i] = shape2[i]

\* The element-wise loops of executeBinaryTensorOperation: they run over the
\* indices of the left Data and read the right Data at the same index.
TensorData(op, leftData, rightData) ==
    [index \in 1..Len(leftData) |->
        CASE op = "OpAdd" -> FAdd(leftData[index], rightData[index])
          [] op = "OpSub" -> FSub(leftData[index], rightData[index])
          [] op = "OpMul" -> FMul(leftData[index], rightData[index])
          [] op = "OpDiv" -> FDiv(leftData[index], rightData[index])]

executeBinaryTensorOperation(m, op, left, right) ==
    LET leftShape == left.val.Shape
        rightShape == right.val.Shape
    IN IF op \notin {"OpAdd", "OpSub", "OpMul", "OpDiv"}
       THEN Fail(m, "unknown integer operator: " \o op)
       ELSE IF op = "OpAdd" /\ ~shapesEqual(leftShape, rightShape)
       THEN Fail(m, "shapes are not equal " \o ToString(leftShape) \o " "
                    \o ToString(rightShape))
       ELSE IF Len(right.val.Data) < Len(left.val.Data) THEN Fault(m, IndexOutOfRange)
       ELSE pushRet(Mk(m, "TENSOR",
                       [Shape |-> left.val.Shape,
                        Data |-> TensorData(op, left.val.Data, right.val.Data)]))

executeBinaryOperation(m, op) ==
    IF ~CanPop(m, 2) THEN Fault(m, IndexOutOfRange)
    ELSE LET right == Top(m)
             left == Top(Drop(m))
             m2 == Drop(Drop(m))
         IN CASE IsNil(left) \/ IsNil(right) -> Fault(m2, NilDeref)
              [] left.type = "INTEGER" /\ right.type = "INTEGER" ->
                    executeBinaryIntegerOperation(m2, op, left, right)
              [] left.type = "FLOAT" /\ right.type = "FLOAT" ->
                    executeBinaryFloatOperation(m2, op, left, right)
              [] left.type = "TENSOR" /\ right.type = "TENSOR" ->
                    executeBinaryTensorOperation(m2, op, left, right)
              [] left.type = "STRING" /\ right.type = "STRING" ->
                    executeBinaryStringOperation(m2, op, left, right)
              [] OTHER -> Fail(m2, "unsupported types for binary operation: "
                                   \o left.type \o " " \o right.type)

\* stack[startIndex:endIndex] as a sequence.
StackSlice(m, startIndex, endIndex) ==
    [i \in 1..(endIndex - startIndex) |-> SlotAt(m.stack, startIndex + i - 1)]

buildArray(m, startIndex, endIndex) == MkArray(m, StackSlice(m, startIndex, endIndex))

\* buildHash: [r, st] with r the Hash, or an Error object carrying the
\* message of the error returned.
RECURSIVE buildHashFrom(_, _, _, _)
buildHashFrom(m, i, endIndex, pairs) ==
    IF i >= endIndex THEN Mk(m, "HASH", pairs)
    ELSE LET key == SlotAt(m.stack, i)
             value == SlotAt(m.stack, i + 1)
         IN IF IsNil(key) THEN Ret(NilDeref, m)
            ELSE IF ~Hashable(key) THEN newError(m, "unusable as hash key: " \o key.type)
            ELSE buildHashFrom(m, i + 2, endIndex,
                               (HashKey(key) :> HashPair(key, value)) @@ pairs)

buildHash(m, startIndex, endIndex) == buildHashFrom(m, startIndex, endIndex, <<>>)

\* An executeArrayIndex without the bounds test: an index outside the array
\* is an index out of range in the host.
executeArrayIndexUnchecked(m, array, index) ==
    LET idx == index.val
        max == Len(Elements(m, array)) - 1
    IN IF idx < 0 \/ idx > max THEN Fault(m, IndexOutOfRange)
       ELSE push(m, Elements(m, array)[idx + 1])

executeArrayIndex(m, array, index) ==
    LET idx == index.val
        max == Len(Elements(m, array)) - 1
    IN IF idx < 0 \/ idx > max THEN push(m, Null)
       ELSE push(m, Elements(m, array)[idx + 1])

executeHashIndex(m, hash, index) ==
    IF IsNil(index) THEN Fault(m, NilDeref)
    ELSE IF ~Hashable(index) THEN Fail(m, "unusable as hash key: " \o index.type)
    ELSE IF HashKey(index) \notin DOMAIN hash.val THEN push(m, Null)
    ELSE push(m, hash.val[HashKey(index)].Value)

executeIndexExpression(m, left, index) ==
    IF IsNil(left) THEN Fault(m, NilDeref)
    ELSE IF left.type = "ARRAY" /\ IsNil(index) THEN Fault(m, NilDeref)
    ELSE IF left.type = "ARRAY" /\ index.type = "INTEGER"
    THEN executeArrayIndex(m, left, index)
    ELSE IF left.type = "HASH" THEN executeHashIndex(m, left, index)
    ELSE Fail(m, "index operator not supported: " \o left.type)

\* A pushClosure that builds the closure without copying the free variables
\* off the stack.
pushClosureWithoutFree(m, constIndex, numFree) ==
    LET constant == SlotAt(m.constants, constIndex)
    IN IF constIndex >= Len(m.constants) THEN Fault(m, IndexOutOfRange)
       ELSE IF constant.type # "COMPILED_FUNCTION"
       THEN Fail(m, "not a function: " \o constant.type)
       ELSE pushRet(Mk(m, "CLOSURE", [Fn |-> constant, Free |-> <<>>]))

\* pushClosure: the Free values are read from the top of the stack; sp is
\* left where it was.
pushClosure(m, constIndex, numFree) ==
    LET constant == SlotAt(m.constants, constIndex)
    IN IF constIndex >= Len(m.constants) THEN Fault(m, IndexOutOfRange)
       ELSE IF constant.type # "COMPILED_FUNCTION"
       THEN Fail(m, "not a function: " \o constant.type)
       ELSE IF m.sp - numFree < 0 THEN Fault(m, IndexOutOfRange)
       ELSE pushRet(Mk(m, "CLOSURE",
                       [Fn |-> constant, Free |-> StackSlice(m, m.sp - numFree, m.sp)]))

\* A callClosure whose frame starts above the arguments instead of at the
\* first of them.
callClosureAboveArguments(m, cl, numArgs) ==
    IF numArgs # cl.val.Fn.val.NumParameters
    THEN Fail(m, "wrong number of arguments: want="
                 \o ToString(cl.val.Fn.val.NumParameters) \o ", got=" \o ToString(numArgs))
    ELSE LET frame == NewFrame(cl, m.sp)
             m1 == pushFrame(m, frame)
         IN IF m1.status # "running" THEN m1
            ELSE [m1 EXCEPT !.sp = frame.basePointer + cl.val.Fn.val.NumLocals]

callClosure(m, cl, numArgs) ==
    IF numArgs # cl.val.Fn.val.NumParameters
    THEN Fail(m, "wrong number of arguments: want="
                 \o ToString(cl.val.Fn.val.NumParameters) \o ", got=" \o ToString(numArgs))
    ELSE LET frame == NewFrame(cl, m.sp - numArgs)
             m1 == pushFrame(m, frame)
         IN IF m1.status # "running" THEN m1
            ELSE [m1 EXCEPT !.sp = frame.basePointer + cl.val.Fn.val.NumLocals]

callBuiltin(m, builtin, numArgs) ==
    LET args == StackSlice(m, m.sp - numArgs, m.sp)
        result == BuiltinFn(builtin.val, args, m)
        m1 == [result.st EXCEPT !.sp = m.sp - numArgs - 1]
    IN IF IsPanic(result.r) THEN Fault(result.st, result.r)
       ELSE IF ~IsNil(result.r) THEN [push(m1, result.r) EXCEPT !.status = "running", !.err = ""]
       ELSE [push(m1, Null) EXCEPT !.status = "running", !.err = ""]

executeCall(m, numArgs) ==
    LET callee == SlotAt(m.stack, m.sp - 1 - numArgs)
    IN IF m.sp - 1 - numArgs < 0 THEN Fault(m, IndexOutOfRange)
       ELSE CASE callee.type = "CLOSURE" -> callClosure(m, callee, numArgs)
              [] callee.type = "BUILTIN" -> callBuiltin(m, callee, numArgs)
              [] OTHER -> Fail(m, "calling non-function and non-built-in")

\* The current frame's ip moved by n, or set to pos.
AdvanceIp(m, n) == [m EXCEPT !.frames[m.framesIndex].ip = @ + n]
SetIp(m, pos) == [m EXCEPT !.frames[m.framesIndex].ip = pos]

popFrame(m) == [m EXCEPT !.framesIndex = @ - 1]

\* A return that leaves the callee on the stack below the result.
returnFromFrameAboveCallee(m, returnValue) ==
    IF m.framesIndex - 1 < 0 THEN Fault(m, IndexOutOfRange)
    ELSE LET frame == currentFrame(m)
         IN push([popFrame(m) EXCEPT !.sp = frame.basePointer], returnValue)

\* OpReturnValue and OpReturn: leave the frame, push the value below it.
returnFromFrame(m, returnValue) ==
    IF m.framesIndex - 1 < 0 THEN Fault(m, IndexOutOfRange)
    ELSE LET frame == currentFrame(m)
         IN push([popFrame(m) EXCEPT !.sp = frame.basePointer - 1], returnValue)

\* The first element of elems whose type is not one of types, 0 without one.
FirstNotOfType(elems, types) ==
    IF \A i \in 1..Len(elems) : elems[i].type \in types THEN 0
    ELSE CHOOSE i \in 1..Len(elems) :
             /\ elems[i].type \notin types
             /\ \A j \in 1..(i - 1) : elems[j].type \in types

\* createTensor: the data elements as floats (an integer is converted), the
\* shape elements as integers; [err, r, st], err = "panic" for Type() called
\* on a nil element.
createTensor(m, shape, data) ==
    LET dataElements == Elements(m, data)
        shapeElements == Elements(m, shape)
        badData == FirstNotOfType(dataElements, {"INTEGER", "FLOAT"})
        badShape == FirstNotOfType(shapeElements, {"INTEGER"})
        err(msg) == [err |-> msg, r |-> NIL, st |-> m]
        made == Mk(m, "TENSOR",
                   [Shape |-> [i \in 1..Len(shapeElements) |-> shapeElements[i].val],
                    Data |-> [i \in 1..Len(dataElements) |->
                                IF dataElements[i].type = "INTEGER"
                                THEN <<dataElements[i].val, 1>>
                                ELSE dataElements[i].val]])
    IN IF shape.type # "ARRAY" THEN err("dimensions argument must be an array")
       ELSE IF data.type # "ARRAY" THEN err("data argument must be an array")
       ELSE IF badData # 0
       THEN IF IsNil(dataElements[badData]) THEN err("panic")
            ELSE err("data elements must be of type float")
       ELSE IF badShape # 0
       THEN IF IsNil(shapeElements[badShape]) THEN err("panic")
            ELSE err("shape elements must be of type integer")
       ELSE [err |-> "", r |-> made.r, st |-> made.st]

\* One instruction: the body of Run's loop with ip already incremented.
Execute(m, ins, ip, op) ==
    CASE op = "OpConstant" ->
            LET constIndex == ReadUint16(ins, ip + 1)
                m1 == AdvanceIp(m, 2)
            IN IF constIndex >= Len(m.constants) THEN Fault(m1, IndexOutOfRange)
               ELSE push(m1, m.constants[constIndex + 1])
      [] op \in {"OpEqual", "OpNotEqual", "OpGreaterThan"} -> executeComparison(m, op)
      [] op \in {"OpAdd", "OpSub", "OpMul", "OpDiv"} -> executeBinaryOperation(m, op)
      [] op = "OpPop" -> IF CanPop(m, 1) THEN Drop(m) ELSE Fault(m, IndexOutOfRange)
      [] op = "OpTrue" -> push(m, True)
      [] op = "OpFalse" -> push(m, False)
      [] op = "OpBang" -> executeBangOperator(m)
      [] op = "OpMinus" -> executeMinusOperator(m)
      [] op = "OpNull" -> push(m, Null)
      [] op = "OpJump" -> SetIp(m, ReadUint16(ins, ip + 1) - 1)
      [] op = "OpJumpNotTruthy" ->
            LET pos == ReadUint16(ins, ip + 1)
                m1 == AdvanceIp(m, 2)
            IN IF ~CanPop(m, 1) THEN Fault(m1, IndexOutOfRange)
               ELSE IF ~vmIsTruthy(Top(m)) THEN SetIp(Drop(m1), pos - 1)
               ELSE Drop(m1)
      [] op = "OpSetGlobal" ->
            LET globalIndex == ReadUint16(ins, ip + 1)
                m1 == AdvanceIp(m, 2)
            IN IF ~CanPop(m, 1) THEN Fault(m1, IndexOutOfRange)
               ELSE [Drop(m1) EXCEPT !.globals = SlotSet(@, globalIndex, Top(m))]
      [] op = "OpGetGlobal" ->
            push(AdvanceIp(m, 2), SlotAt(m.globals, ReadUint16(ins, ip + 1)))
      [] op = "OpArray" ->
            LET numElements == ReadUint16(ins, ip + 1)
                m1 == AdvanceIp(m, 2)
                array == buildArray(m1, m.sp - numElements, m.sp)
            IN IF m.sp - numElements < 0 THEN Fault(m1, IndexOutOfRange)
               ELSE push([array.st EXCEPT !.sp = m.sp - numElements], array.r)
      [] op = "OpHash" ->
            LET numElements == ReadUint16(ins, ip + 1)
                m1 == AdvanceIp(m, 2)
                hash == buildHash(m1, m.sp - numElements, m.sp)
            IN IF m.sp - numElements < 0 THEN Fault(m1, IndexOutOfRange)
               ELSE IF IsPanic(hash.r) THEN Fault(m1, hash.r)
               ELSE IF isError(hash.r) THEN Fail(m1, hash.r.val)
               ELSE push([hash.st EXCEPT !.sp = m.sp - numElements], hash.r)
      [] op = "OpIndex" ->
            IF ~CanPop(m, 2) THEN Fault(m, IndexOutOfRange)
            ELSE executeIndexExpression(Drop(Drop(m)), Top(Drop(m)), Top(m))
      [] op = "OpCall" -> executeCall(AdvanceIp(m, 1), ReadUint8(ins, ip + 1))
      [] op = "OpReturnValue" ->
            IF ~CanPop(m, 1) THEN Fault(m, IndexOutOfRange)
            ELSE returnFromFrame(Drop(m), Top(m))
      [] op = "OpReturn" -> returnFromFrame(m, Null)
      [] op = "OpSetLocal" ->
            LET localIndex == ReadUint8(ins, ip + 1)
                m1 == AdvanceIp(m, 1)
            IN IF ~CanPop(m, 1) THEN Fault(m1, IndexOutOfRange)
               ELSE [Drop(m1) EXCEPT
                        !.stack = SlotSet(@, currentFrame(m).basePointer + localIndex, Top(m))]
      [] op = "OpGetLocal" ->
            push(AdvanceIp(m, 1),
                 SlotAt(m.stack, currentFrame(m).basePointer + ReadUint8(ins, ip + 1)))
      [] op = "OpGetBuiltin" ->
            LET builtinIndex == ReadUint8(ins, ip + 1)
                m1 == AdvanceIp(m, 1)
            IN IF builtinIndex >= Len(BuiltinNames) THEN Fault(m1, IndexOutOfRange)
               ELSE push(m1, GetBuiltInByName(BuiltinNames[builtinIndex + 1]))
      [] op = "OpClosure" ->
            pushClosure(AdvanceIp(m, 3), ReadUint16(ins, ip + 1), ReadUint8(ins, ip + 3))
      [] op = "OpGetFree" ->
            LET freeIndex == ReadUint8(ins, ip + 1)
                m1 == AdvanceIp(m, 1)
                currentClosure == currentFrame(m).cl
            IN IF freeIndex >= Len(currentClosure.val.Free) THEN Fault(m1, IndexOutOfRange)
               ELSE push(m1, currentClosure.val.Free[freeIndex + 1])
      [] op = "OpCurrentClosure" -> push(m, currentFrame(m).cl)
      [] op = "OpImport" -> AdvanceIp(m, 2)
      [] op = "OpTensor" ->
            LET m1 == AdvanceIp(m, 2)
                data == Top(m)
                shape == Top(Drop(m))
                tensor == createTensor(Drop(Drop(m1)), shape, data)
            IN IF ~CanPop(m, 2) THEN Fault(m1, IndexOutOfRange)
               ELSE IF IsNil(shape) \/ IsNil(data)
               THEN Fail(Drop(Drop(m1)),
                         IF IsNil(shape) THEN "dimensions argument must be an array"
                         ELSE "data argument must be an array")
               ELSE IF tensor.err = "panic" THEN Fault(tensor.st, NilDeref)
               ELSE IF tensor.err # "" THEN Fail(tensor.st, tensor.err)
               ELSE push(tensor.st, tensor.r)
      [] OTHER -> m

\* One turn of Run's loop: test the condition, then fetch and execute; Run
\* returns nil when the condition fails.
Step(m) ==
    IF m.framesIndex - 1 < 0 THEN Fault(m, IndexOutOfRange)
    ELSE IF currentFrame(m).ip >= Len(Instructions(currentFrame(m))) - 1
    THEN [m EXCEPT !.status = "done"]
    ELSE LET m1 == AdvanceIp(m, 1)
             ip == currentFrame(m1).ip
             ins == Instructions(currentFrame(m1))
         IN Execute(m1, ins, ip, ins[ip + 1].op)

(***************************************************************************)
(* The two back ends on one program (main.go): the evaluator in one step,  *)
(* the compiler and New in one step, then the machine instruction by       *)
(* instruction.                                                            *)
(***************************************************************************)
NotEvaluated(ord) == [status |-> "idle", r |-> NIL, st |-> NewState(ord)]

NotStarted ==
    [status |-> "idle", err |-> "", constants |-> <<>>, stack |-> <<>>, sp |-> 0,
     globals |-> <<>>, frames |-> <<>>, framesIndex |-> 0, objs |-> <<>>]

\* evaluator.Eval(program, env) in a new environment.
Evaluate(prog, ord) ==
    LET x == Eval(prog, 1, NewState(ord))
    IN [status |-> IF IsPanic(x.r) THEN "panic" ELSE "done", r |-> x.r, st |-> x.st]

\* compiler.New().Compile(program), then vm.New(comp.Bytecode()).
CompileAndNew(prog) ==
    LET comp == Compile(prog, NewCompiler)
    IN IF comp.err # "" THEN [NotStarted EXCEPT !.status = "compile error", !.err = comp.err]
       ELSE New(Bytecode(comp))

RunEvaluator ==
    /\ evalOut.status = "idle"
    /\ evalOut' = Evaluate(program, order)
    /\ UNCHANGED <<program, order, vm, ps, lx, symtabs>>

RunCompiler ==
    /\ vm.status = "idle"
    /\ vm' = CompileAndNew(program)
    /\ UNCHANGED <<program, order, evalOut, ps, lx, symtabs>>

VMStep ==
    /\ vm.status = "running"
    /\ vm' = Step(vm)
    /\ UNCHANGED <<program, order, evalOut, ps, lx, symtabs>>

NextBackends == RunEvaluator \/ RunCompiler \/ VMStep

(***************************************************************************)
(* Lexer (lexer package).  A lexer l is [input, position, readPosition,    *)
(* ch, line]; the input is the sequence of its bytes and ch = 0 stands for *)
(* the end of the input.  Go's input[i] is input[i + 1] here.  A token's   *)
(* Literal is the sequence of its bytes.                                   *)
(***************************************************************************)
Token(type, literal) == [Type |-> type, Literal |-> literal, Line |-> 0]

readChar(l) ==
    [l EXCEPT !.ch = IF l.readPosition >= Len(l.input) THEN 0
                     ELSE l.input[l.readPosition + 1],
              !.position = l.readPosition,
              !.readPosition = l.readPosition + 1]

NewLexer(input) ==
    readChar([input |-> input, position |-> 0, readPosition |-> 0, ch |-> 0, line |-> 0])

\* input[from:to]
Slice(input, from, to) == SubSeq(input, from + 1, to)

peekCharacter(l) ==
    IF l.readPosition >= Len(l.input) THEN 0 ELSE l.input[l.readPosition + 1]

\* ' ', '\t', '\n', '\r' are skipped; '\n' counts a line.
RECURSIVE skipWhitespace(_)
skipWhitespace(l) ==
    IF l.ch = 32 \/ l.ch = 9 \/ l.ch = 10 \/ l.ch = 13
    THEN skipWhitespace(readChar(IF l.ch = 10 THEN [l EXCEPT !.line = @ + 1] ELSE l))
    ELSE l

isDigit(ch) == 48 <= ch /\ ch <= 57
isDecimal(ch) == ch = 46
isLetter(ch) == (97 <= ch /\ ch <= 122) \/ (65 <= ch /\ ch <= 90) \/ ch = 95

\* The loop of readString: read up to the closing '"' or the end of the input.
RECURSIVE readStringTo(_)
readStringTo(l) ==
    LET next == readChar(l)
    IN IF next.ch = 34 \/ next.ch = 0 THEN next ELSE readStringTo(next)

\* readString: [s, l].
readString(l) ==
    LET position == l.position + 1
        end == readStringTo(l)
    IN [s |-> Slice(l.input, position, end.position), l |-> end]

RECURSIVE readIdentifierTo(_)
readIdentifierTo(l) == IF isLetter(l.ch) THEN readIdentifierTo(readChar(l)) ELSE l

\* readIdentifier: [s, l].
readIdentifier(l) ==
    LET end == readIdentifierTo(l)
    IN [s |-> Slice(l.input, l.position, end.position), l |-> end]

\* token.keywords: fn, import, let, true, false, if, else, return.
keywords ==
    <<<<(<<102, 110>>), "FUNCTION">>,
      <<(<<105, 109, 112, 111, 114, 116>>), "IMPORT">>,
      <<(<<108, 101, 116>>), "LET">>,
      <<(<<116, 114, 117, 101>>), "TRUE">>,
      <<(<<102, 97, 108, 115, 101>>), "FALSE">>,
      <<(<<105, 102>>), "IF">>,
      <<(<<101, 108, 115, 101>>), "ELSE">>,
      <<(<<114, 101, 116, 117, 114, 110>>), "RETURN">>>>

LookupIdent(ident) ==
    IF \E i \in 1..Len(keywords) : keywords[i][1] = ident
    THEN keywords[CHOOSE i \in 1..Len(keywords) : keywords[i][1] = ident][2]
    ELSE "IDENT"

newToken(tokenType, ch) == Token(tokenType, <<ch>>)

\* The loop of readNumber: [tok, l], tok.Type turns FLOAT at a '.'.
RECURSIVE readNumberTo(_, _)
readNumberTo(tok, l) ==
    IF isDigit(l.ch) \/ isDecimal(l.ch)
    THEN readNumberTo(IF isDecimal(l.ch) THEN [tok EXCEPT !.Type = "FLOAT"] ELSE tok,
                      readChar(l))
    ELSE [tok |-> tok, l |-> l]

\* readNumber: [tok, l]; the token's Line is left at its zero value.
readNumber(l) ==
    LET end == readNumberTo(Token("INT", <<>>), l)
    IN [tok |-> [end.tok EXCEPT !.Literal = Slice(l.input, l.position, end.l.position)],
        l |-> end.l]

\* The cases of NextToken's switch that make a one-byte token.
OneByteTokens ==
    <<<<59, ";">>, <<58, ":">>, <<40, "(">>, <<41, ")">>, <<44, ",">>, <<43, "+">>,
      <<45, "-">>, <<47, "/">>, <<42, "*">>, <<60, "<">>, <<62, ">">>, <<123, "{">>,
      <<125, "}">>, <<91, "[">>, <<93, "]">>, <<64, "@">>>>

\* Lexer.NextToken: [tok, l].  An identifier, a keyword and a number return
\* before tok.Line is set.
LexerNextToken(l0) ==
    LET l == skipWhitespace(l0)
        Finish(tok, at) == [tok |-> [tok EXCEPT !.Line = at.line], l |-> readChar(at)]
    IN CASE l.ch = 61 ->
              IF peekCharacter(l) = 61
              THEN Finish(Token("==", <<l.ch, readChar(l).ch>>), readChar(l))
              ELSE Finish(newToken("=", l.ch), l)
         [] l.ch = 33 ->
              IF peekCharacter(l) = 61
              THEN Finish(Token("!=", <<l.ch, readChar(l).ch>>), readChar(l))
              ELSE Finish(newToken("!", l.ch), l)
         [] \E i \in 1..Len(OneByteTokens) : OneByteTokens[i][1] = l.ch ->
              Finish(newToken(OneByteTokens[CHOOSE i \in 1..Len(OneByteTokens) :
                                                OneByteTokens[i][1] = l.ch][2], l.ch), l)
         [] l.ch = 34 ->
              LET str == readString(l)
              IN Finish(Token("STRING", str.s), str.l)
         [] l.ch = 0 -> Finish(Token("EOF", <<>>), l)
         [] OTHER ->
              IF isLetter(l.ch)
              THEN LET ident == readIdentifier(l)
                   IN [tok |-> Token(LookupIdent(ident.s), ident.s), l |-> ident.l]
              ELSE IF isDigit(l.ch) THEN readNumber(l)
              ELSE Finish(newToken("ILLEGAL", l.ch), l)

\* The lexer of a run with the tokens NextToken has returned; no lexer in the
\* runs that start from tokens or from a program.
NoLexer == [l |-> NewLexer(<<>>), pc |-> "idle", tokens |-> <<>>, starts |-> <<>>]

StartLexer(input) == [NoLexer EXCEPT !.l = NewLexer(input), !.pc = "NextToken"]

\* One call of NextToken by the lexer's client, which stops calling at EOF.
\* starts records the position of each token's first byte.
CallNextToken(s) ==
    LET r == LexerNextToken(s.l)
    IN [s EXCEPT !.l = r.l,
                 !.tokens = Append(@, r.tok),
                 !.starts = Append(@, skipWhitespace(s.l).position),
                 !.pc = IF r.tok.Type = "EOF" THEN "done" ELSE @]

NextTokenCall ==
    /\ lx.pc = "NextToken"
    /\ lx' = CallNextToken(lx)
    /\ UNCHANGED <<program, order, evalOut, vm, ps, symtabs>>

NextLexer == NextTokenCall

(***************************************************************************)
(* Parser (parser package).  A parser p is [tokens, pos, currentToken,     *)
(* peekToken, errors, hang].  tokens is what the lexer will hand out for   *)
(* the input and pos the next one; after the last the lexer returns EOF    *)
(* for ever.  A token is [Type, Literal, Line]; the Literal of a number is *)
(* the sequence of its characters.  hang records that a loop of the parser *)
(* has reached a state that its body does not change while its condition  *)
(* is true: the call never returns.                                        *)
(***************************************************************************)
LOWEST == 1
EQUALS == 2
LESSGREATER == 3
SUM == 4
PRODUCT == 5
PREFIX == 6
CALL == 7
INDEX == 8

\* A precedence table with the levels of + - and of * / exchanged.
precedencesExchanged(t) ==
    CASE t \in {"==", "!="} -> EQUALS
      [] t \in {"<", ">"} -> LESSGREATER
      [] t \in {"+", "-"} -> PRODUCT
      [] t \in {"/", "*"} -> SUM
      [] t = "(" -> CALL
      [] t = "[" -> INDEX
      [] OTHER -> LOWEST

precedences(t) ==
    CASE t \in {"==", "!="} -> EQUALS
      [] t \in {"<", ">"} -> LESSGREATER
      [] t \in {"+", "-"} -> SUM
      [] t \in {"/", "*"} -> PRODUCT
      [] t = "(" -> CALL
      [] t = "[" -> INDEX
      [] OTHER -> LOWEST

EOFToken == Token("EOF", "")

\* Lexer.NextToken as the parser sees it.
NextToken(p) == IF p.pos <= Len(p.tokens) THEN p.tokens[p.pos] ELSE EOFToken

nextToken(p) ==
    IF p.hang THEN p
    ELSE [p EXCEPT !.currentToken = p.peekToken,
                   !.peekToken = NextToken(p),
                   !.pos = IF p.pos <= Len(p.tokens) THEN @ + 1 ELSE @]

\* parser.New: read two tokens.
NewParser(tokens) ==
    nextToken(nextToken([tokens |-> tokens, pos |-> 1, currentToken |-> Token("", ""),
                         peekToken |-> Token("", ""), errors |-> <<>>, hang |-> FALSE]))

currentTokenIs(p, t) == p.currentToken.Type = t
peekTokenIs(p, t) == p.peekToken.Type = t

peekPrecedence(p) == precedences(p.peekToken.Type)
currentPrecedence(p) == precedences(p.currentToken.Type)

addError(p, msg) == IF p.hang THEN p ELSE [p EXCEPT !.errors = Append(@, msg)]

peekError(p, t) ==
    addError(p, "On line " \o ToString(p.currentToken.Line) \o ", expected next token to be "
                \o t \o ", got " \o p.peekToken.Type \o " instead")

\* expectPeek: [ok, p].
expectPeek(p, t) ==
    IF peekTokenIs(p, t) THEN [ok |-> TRUE, p |-> nextToken(p)]
    ELSE [ok |-> FALSE, p |-> peekError(p, t)]

noPrefixParseFnError(p, t) ==
    addError(p, "On line " \o ToString(p.currentToken.Line)
                \o ", no prefix parse function for " \o t \o " found")

\* The loops that skip tokens cannot leave this state: every later token is EOF.
AtEndOfInput(p) == currentTokenIs(p, "EOF") /\ peekTokenIs(p, "EOF")

Parsed(node, p) == [node |-> node, p |-> p]

\* strconv: the literal's characters, joined for the messages.
RECURSIVE Concat(_)
Concat(chars) == IF chars = <<>> THEN "" ELSE chars[1] \o Concat(Tail(chars))

DigitValue(ch) ==
    CASE ch = "0" -> 0 [] ch = "1" -> 1 [] ch = "2" -> 2 [] ch = "3" -> 3 [] ch = "4" -> 4
      [] ch = "5" -> 5 [] ch = "6" -> 6 [] ch = "7" -> 7 [] ch = "8" -> 8 [] ch = "9" -> 9
      [] OTHER -> -1

\* The digits lit[i..] in the base, after acc; -1 when one is not a digit of it.
RECURSIVE ParseDigits(_, _, _, _)
ParseDigits(lit, i, base, acc) ==
    IF i > Len(lit) THEN acc
    ELSE IF DigitValue(lit[i]) < 0 \/ DigitValue(lit[i]) >= base THEN -1
    ELSE ParseDigits(lit, i + 1, base, (acc * base) + DigitValue(lit[i]))

\* strconv.ParseInt(lit, 0, 64) on a run of digits: a leading 0 makes it octal.
ParseInt(lit) ==
    LET v == IF Len(lit) > 1 /\ lit[1] = "0" THEN ParseDigits(lit, 2, 8, 0)
             ELSE ParseDigits(lit, 1, 10, 0)
    IN [ok |-> Len(lit) > 0 /\ v >= 0, value |-> v]

RECURSIVE Pow10(_)
Pow10(n) == IF n = 0 THEN 1 ELSE 10 * Pow10(n - 1)

\* strconv.ParseFloat(lit, 64) on a run of digits and points: one point at most.
ParseFloat(lit) ==
    LET points == {i \in 1..Len(lit) : lit[i] = "."}
        point == IF points = {} THEN Len(lit) + 1 ELSE CHOOSE i \in points : TRUE
        digits == SubSeq(lit, 1, point - 1) \o SubSeq(lit, point + 1, Len(lit))
        v == ParseDigits(digits, 1, 10, 0)
    IN [ok |-> Cardinality(points) <= 1 /\ Len(digits) > 0 /\ v >= 0,
        value |-> FNorm(v, Pow10(Len(lit) - (IF point > Len(lit) THEN Len(lit) ELSE point)))]

parseIntegerLiteral(p) ==
    LET r == ParseInt(p.currentToken.Literal)
    IN IF ~r.ok
       THEN Parsed(NilNode,
                   addError(p, "Syntax error on line " \o ToString(p.currentToken.Line)
                               \o ": could not parse \"" \o Concat(p.currentToken.Literal)
                               \o "\" as integer"))
       ELSE Parsed(IntegerLiteral(r.value), p)

parseFloatLiteral(p) ==
    LET r == ParseFloat(p.currentToken.Literal)
    IN IF ~r.ok
       THEN Parsed(NilNode,
                   addError(p, "Syntax error on line " \o ToString(p.currentToken.Line)
                               \o ": could not parse \"" \o Concat(p.currentToken.Literal)
                               \o "\" as float"))
       ELSE Parsed(FloatLiteral(r.value), p)

parseBoolean(p) == Parsed(Boolean(currentTokenIs(p, "TRUE")), p)
parseIdentifier(p) == Parsed(Identifier(p.currentToken.Literal), p)
parseStringLiteral(p) == Parsed(StringLiteral(p.currentToken.Literal), p)

\* A nil *ast.LetStatement returned as an ast.Statement: an interface that
\* is not nil and holds a nil pointer.
TypedNilLetStatement == [k |-> "(*ast.LetStatement)(nil)"]

TensorLiteral(shape, data) == [k |-> "TensorLiteral", Shape |-> shape, Data |-> data]

\* hash.Pairs[key] = value: a second nil key takes the place of the first.
PutPair(pairs, key, value) ==
    IF key.k = "nil" /\ \E i \in 1..Len(pairs) : pairs[i][1].k = "nil"
    THEN [i \in 1..Len(pairs) |-> IF pairs[i][1].k = "nil" THEN <<key, value>> ELSE pairs[i]]
    ELSE Append(pairs, <<key, value>>)

\* for !p.currentTokenIs(token.SEMICOLON) { p.nextToken() }
RECURSIVE skipToSemicolon(_)
skipToSemicolon(p) ==
    IF p.hang \/ currentTokenIs(p, ";") THEN p
    ELSE IF AtEndOfInput(p) THEN [p EXCEPT !.hang = TRUE]
    ELSE skipToSemicolon(nextToken(p))

\* parseImportLiteral's loop: the path is the last token before the `;`.
RECURSIVE importPathFrom(_, _)
importPathFrom(p, path) ==
    IF p.hang \/ peekTokenIs(p, ";") THEN Parsed(ImportLiteral(path), p)
    ELSE IF AtEndOfInput(p) THEN Parsed(ImportLiteral(path), [p EXCEPT !.hang = TRUE])
    ELSE importPathFrom(nextToken(p), p.peekToken.Literal)

parseImportLiteral(p) == importPathFrom(p, "")

RECURSIVE parseExpression(_, _)
RECURSIVE parseInfixLoop(_, _, _)
RECURSIVE parseStatement(_)
RECURSIVE parseBlockStatementFrom(_, _)
RECURSIVE parseListFrom(_, _)
RECURSIVE parseHashPairsFrom(_, _)

\* parseExpressionList(end) and parseCallArguments (end = ")"): [list, p];
\* the list is nil, which has no elements, when the end is missing.
parseListFrom(p, list) ==
    IF p.hang \/ ~peekTokenIs(p, ",") THEN [list |-> list, p |-> p]
    ELSE LET e == parseExpression(nextToken(nextToken(p)), LOWEST)
         IN parseListFrom(e.p, Append(list, e.node))

parseExpressionList(p, end) ==
    IF peekTokenIs(p, end) THEN [list |-> <<>>, p |-> nextToken(p)]
    ELSE LET first == parseExpression(nextToken(p), LOWEST)
             rest == parseListFrom(first.p, <<first.node>>)
             closed == expectPeek(rest.p, end)
         IN IF ~closed.ok THEN [list |-> <<>>, p |-> closed.p]
            ELSE [list |-> rest.list, p |-> closed.p]

parseCallArguments(p) == parseExpressionList(p, ")")

parseArrayLiteral(p) ==
    LET elements == parseExpressionList(p, "]")
    IN Parsed(ArrayLiteral(elements.list), elements.p)

parseCallExpression(p, function) ==
    LET args == parseCallArguments(p)
    IN Parsed(CallExpression(function, args.list), args.p)

parseIndexExpression(p, left) ==
    LET index == parseExpression(nextToken(p), LOWEST)
        closed == expectPeek(index.p, "]")
    IN IF ~closed.ok THEN Parsed(NilNode, closed.p)
       ELSE Parsed(IndexExpression(left, index.node), closed.p)

parseHashPairsFrom(p, pairs) ==
    IF p.hang \/ peekTokenIs(p, "}")
    THEN LET closed == expectPeek(p, "}")
         IN IF ~closed.ok THEN Parsed(NilNode, closed.p)
            ELSE Parsed(HashLiteral(pairs), closed.p)
    ELSE LET key == parseExpression(nextToken(p), LOWEST)
             colon == expectPeek(key.p, ":")
             value == parseExpression(nextToken(colon.p), LOWEST)
             comma == expectPeek(value.p, ",")
         IN IF ~colon.ok THEN Parsed(NilNode, colon.p)
            ELSE IF ~peekTokenIs(value.p, "}") /\ ~comma.ok THEN Parsed(NilNode, comma.p)
            ELSE parseHashPairsFrom(IF peekTokenIs(value.p, "}") THEN value.p ELSE comma.p,
                                    PutPair(pairs, key.node, value.node))

parseHashLiteral(p) == parseHashPairsFrom(p, <<>>)

\* parseBlockStatement: the statements up to the `}` or the end of input.
parseBlockStatementFrom(p, statements) ==
    IF p.hang \/ currentTokenIs(p, "}") \/ currentTokenIs(p, "EOF")
    THEN Parsed(BlockStatement(statements), p)
    ELSE LET stmt == parseStatement(p)
         IN parseBlockStatementFrom(
                nextToken(stmt.p),
                IF stmt.node.k # "nil" THEN Append(statements, stmt.node) ELSE statements)

parseBlockStatement(p) == parseBlockStatementFrom(nextToken(p), <<>>)

parsePrefixExpression(p) ==
    LET right == parseExpression(nextToken(p), PREFIX)
    IN Parsed(PrefixExpression(p.currentToken.Literal, right.node), right.p)

parseInfixExpression(p, left) ==
    LET right == parseExpression(nextToken(p), currentPrecedence(p))
    IN Parsed(InfixExpression(p.currentToken.Literal, left, right.node), right.p)

parseGroupedExpression(p) ==
    LET exp == parseExpression(nextToken(p), LOWEST)
        closed == expectPeek(exp.p, ")")
    IN IF ~closed.ok THEN Parsed(NilNode, closed.p) ELSE Parsed(exp.node, closed.p)

parseIfExpression(p) ==
    LET lparen == expectPeek(p, "(")
        condition == parseExpression(nextToken(lparen.p), LOWEST)
        rparen == expectPeek(condition.p, ")")
        lbrace == expectPeek(rparen.p, "{")
        consequence == parseBlockStatement(lbrace.p)
        elseBrace == expectPeek(nextToken(consequence.p), "{")
        alternative == parseBlockStatement(elseBrace.p)
    IN IF ~lparen.ok THEN Parsed(NilNode, lparen.p)
       ELSE IF ~rparen.ok THEN Parsed(NilNode, rparen.p)
       ELSE IF ~lbrace.ok THEN Parsed(NilNode, lbrace.p)
       ELSE IF ~peekTokenIs(consequence.p, "ELSE")
       THEN Parsed(IfExpression(condition.node, consequence.node, NilNode), consequence.p)
       ELSE IF ~elseBrace.ok THEN Parsed(NilNode, elseBrace.p)
       ELSE Parsed(IfExpression(condition.node, consequence.node, alternative.node),
                   alternative.p)

\* parseFunctionParameters: [list, p] of the parameters' names.
RECURSIVE parseParametersFrom(_, _)
parseParametersFrom(p, identifiers) ==
    IF p.hang \/ ~peekTokenIs(p, ",") THEN [list |-> identifiers, p |-> p]
    ELSE LET p2 == nextToken(nextToken(p))
         IN parseParametersFrom(p2, Append(identifiers, p2.currentToken.Literal))

parseFunctionParameters(p) ==
    IF peekTokenIs(p, ")") THEN [list |-> <<>>, p |-> nextToken(p)]
    ELSE LET p1 == nextToken(p)
             rest == parseParametersFrom(p1, <<p1.currentToken.Literal>>)
             closed == expectPeek(rest.p, ")")
         IN IF ~closed.ok THEN [list |-> <<>>, p |-> closed.p]
            ELSE [list |-> rest.list, p |-> closed.p]

parseFunctionLiteral(p) ==
    LET lparen == expectPeek(p, "(")
        parameters == parseFunctionParameters(lparen.p)
        lbrace == expectPeek(parameters.p, "{")
        body == parseBlockStatement(lbrace.p)
    IN IF ~lparen.ok THEN Parsed(NilNode, lparen.p)
       ELSE IF ~lbrace.ok THEN Parsed(NilNode, lbrace.p)
       ELSE Parsed(FunctionLiteral(parameters.list, body.node, ""), body.p)

parseTensorLiteral(p) ==
    LET lbracket == expectPeek(p, "[")
        shape == parseExpression(lbracket.p, LOWEST)
        comma == expectPeek(shape.p, ",")
        data == parseExpression(nextToken(comma.p), LOWEST)
    IN IF ~lbracket.ok THEN Parsed(NilNode, lbracket.p)
       ELSE IF shape.node.k = "nil" THEN Parsed(NilNode, shape.p)
       ELSE IF ~comma.ok THEN Parsed(NilNode, comma.p)
       ELSE IF data.node.k = "nil" THEN Parsed(NilNode, data.p)
       ELSE Parsed(TensorLiteral(shape.node, data.node), data.p)

\* prefixParseFns[p.currentToken.Type]
HasPrefixParseFn(t) ==
    t \in {"IDENT", "INT", "FLOAT", "!", "-", "TRUE", "FALSE", "(", "IF", "FUNCTION",
           "IMPORT", "STRING", "[", "{", "@"}

prefixParseFn(p) ==
    LET t == p.currentToken.Type
    IN CASE t = "IDENT" -> parseIdentifier(p)
         [] t = "INT" -> parseIntegerLiteral(p)
         [] t = "FLOAT" -> parseFloatLiteral(p)
         [] t \in {"!", "-"} -> parsePrefixExpression(p)
         [] t \in {"TRUE", "FALSE"} -> parseBoolean(p)
         [] t = "(" -> parseGroupedExpression(p)
         [] t = "IF" -> parseIfExpression(p)
         [] t = "FUNCTION" -> parseFunctionLiteral(p)
         [] t = "IMPORT" -> parseImportLiteral(p)
         [] t = "STRING" -> parseStringLiteral(p)
         [] t = "[" -> parseArrayLiteral(p)
         [] t = "{" -> parseHashLiteral(p)
         [] t = "@" -> parseTensorLiteral(p)

\* infixParseFns[p.peekToken.Type]
HasInfixParseFn(t) == t \in {"+", "-", "/", "*", "==", "!=", "<", ">", "(", "["}

infixParseFn(p, left) ==
    CASE p.currentToken.Type = "(" -> parseCallExpression(p, left)
      [] p.currentToken.Type = "[" -> parseIndexExpression(p, left)
      [] OTHER -> parseInfixExpression(p, left)

parseInfixLoop(p, precedence, leftExp) ==
    IF p.hang \/ peekTokenIs(p, ";") \/ ~(precedence < peekPrecedence(p))
    THEN Parsed(leftExp, p)
    ELSE IF ~HasInfixParseFn(p.peekToken.Type) THEN Parsed(leftExp, p)
    ELSE LET e == infixParseFn(nextToken(p), leftExp)
         IN parseInfixLoop(e.p, precedence, e.node)

parseExpression(p, precedence) ==
    IF ~HasPrefixParseFn(p.currentToken.Type)
    THEN Parsed(NilNode, noPrefixParseFnError(p, p.currentToken.Type))
    ELSE LET leftExp == prefixParseFn(p)
         IN parseInfixLoop(leftExp.p, precedence, leftExp.node)

\* The Name of the let is the identifier's Value.
parseLetStatement(p) ==
    LET ident == expectPeek(p, "IDENT")
        name == ident.p.currentToken.Literal
        assign == expectPeek(ident.p, "=")
        value == parseExpression(nextToken(assign.p), LOWEST)
    IN IF ~ident.ok THEN Parsed(NilNode, ident.p)
       ELSE IF ~assign.ok THEN Parsed(NilNode, assign.p)
       ELSE Parsed(LetStatement(name, value.node), skipToSemicolon(value.p))

parseReturnStatement(p) ==
    LET value == parseExpression(nextToken(p), LOWEST)
    IN Parsed(ReturnStatement(value.node), skipToSemicolon(value.p))

parseExpressionStatement(p) ==
    LET e == parseExpression(p, LOWEST)
    IN Parsed(ExpressionStatement(e.node),
              IF peekTokenIs(e.p, ";") THEN nextToken(e.p) ELSE e.p)

\* parseStatement returns an ast.Statement: the nil pointer of a failed let
\* comes back inside an interface that is not nil.
AsStatement(stmt) ==
    IF stmt.node.k = "nil" THEN Parsed(TypedNilLetStatement, stmt.p) ELSE stmt

parseStatement(p) ==
    CASE p.currentToken.Type = "LET" -> AsStatement(parseLetStatement(p))
      [] p.currentToken.Type = "RETURN" -> parseReturnStatement(p)
      [] OTHER -> parseExpressionStatement(p)

(***************************************************************************)
(* ParseProgram, one statement of its loop at a time.  ps is [p, pc,       *)
(* Statements]: pc is "ParseProgram" inside the loop, "returned" after it, *)
(* "hung" when the statement being parsed never returns.                   *)
(***************************************************************************)
NoParser == [p |-> NewParser(<<>>), pc |-> "idle", Statements |-> <<>>]

StartParser(tokens) == [p |-> NewParser(tokens), pc |-> "ParseProgram", Statements |-> <<>>]

\* One turn of the loop: parseStatement, append when stmt != nil, nextToken.
\* One turn of ParseProgram's loop, with the statement parseStatement returned.
AppendStatement(s, stmt) ==
    IF stmt.p.hang THEN [s EXCEPT !.p = stmt.p, !.pc = "hung"]
    ELSE [s EXCEPT !.p = nextToken(stmt.p),
                   !.Statements = IF stmt.node.k # "nil" THEN Append(@, stmt.node) ELSE @]

ParseProgramStep(s) == AppendStatement(s, parseStatement(s.p))

ParseStatement ==
    /\ ps.pc = "ParseProgram"
    /\ ps.p.currentToken.Type # "EOF"
    /\ ps' = ParseProgramStep(ps)
    /\ UNCHANGED <<program, order, evalOut, vm, lx, symtabs>>

\* The loop ends at EOF and ParseProgram returns the program.
ParseProgramReturn ==
    /\ ps.pc = "ParseProgram"
    /\ ps.p.currentToken.Type = "EOF"
    /\ ps' = [ps EXCEPT !.pc = "returned"]
    /\ program' = Program(ps.Statements)
    /\ UNCHANGED <<order, evalOut, vm, lx, symtabs>>

NextParser == ParseStatement \/ ParseProgramReturn

(***************************************************************************)
(* Programs of literals, prefix and infix operators and if/else, run by    *)
(* both back ends.                                                         *)
(***************************************************************************)
MaxInt == 1

\* The literals: the integers 0..MaxInt, the floats 0.5 and 1.5, both
\* booleans, the string "a".
Atoms ==
    [i \in 1..(MaxInt + 1) |-> IntegerLiteral(i - 1)]
    \o <<FloatLiteral(<<1, 2>>), FloatLiteral(<<3, 2>>), Boolean(TRUE), Boolean(FALSE),
         StringLiteral(<<97>>)>>

InfixOperators == {"+", "-", "*", "/", "<", ">", "==", "!="}
PrefixOperators == {"!", "-"}

Block1(e) == BlockStatement(<<ExpressionStatement(e)>>)
Program1(e) == Program(<<ExpressionStatement(e)>>)

OperatorPrograms(shape, op, pop, a, b, c) ==
    CASE shape = 1 -> Program1(InfixExpression(op, a, b))
      [] shape = 2 -> Program1(PrefixExpression(pop, InfixExpression(op, a, b)))
      [] shape = 3 -> Program1(InfixExpression(op, PrefixExpression(pop, a), b))
      [] shape = 4 -> Program1(IfExpression(InfixExpression(op, a, b), Block1(c), Block1(a)))
      [] shape = 5 -> Program1(IfExpression(PrefixExpression(pop, a), Block1(b), NilNode))

InitBackends(prog, ord) ==
    /\ program = prog
    /\ order = ord
    /\ evalOut = NotEvaluated(ord)
    /\ vm = NotStarted
    /\ ps = NoParser
    /\ lx = NoLexer
    /\ symtabs = NoSymbolTables

InitOperators ==
    \E shape \in 1..5, op \in InfixOperators, pop \in PrefixOperators :
        \E i \in 1..Len(Atoms), j \in 1..Len(Atoms), k \in 1..Len(Atoms) :
            /\ shape \in {1, 2, 3, 5} => k = 1
            /\ shape = 5 => op = "+"
            /\ shape \in {1, 4} => pop = "!"
            /\ InitBackends(OperatorPrograms(shape, op, pop, Atoms[i], Atoms[j], Atoms[k]), <<>>)

SpecOperators == InitOperators /\ [][NextBackends]_vars

\* Both back ends have finished with the program.
BothFinished == evalOut.status # "idle" /\ vm.status \notin {"idle", "running"}

\* Two objects with the same type and the same payload.
SameValue(a, b) == a.type = b.type /\ a.val = b.val

\* The back ends agree: both delivered the same value, or neither delivered one.
BackendsAgree ==
    IF evalOut.status = "done" /\ ~isError(evalOut.r)
    THEN vm.status = "done" /\ SameValue(evalOut.r, LastPoppedStackElem(vm))
    ELSE vm.status # "done"

\* C1: for every program of integer, float, boolean and string literals
\* combined with ! and -, with + - * / < > == != and with if/else, the
\* evaluator's result equals the VM's last popped stack element.
C1_SameFinalValue == BothFinished => BackendsAgree

(***************************************************************************)
(* Calls of a user function: let f = fn(p1, .., pk) { body }; f(1, .., j)  *)
(***************************************************************************)
MaxParams == 2
MaxArgs == 3

ParameterNames == <<"a", "b", "c", "d">>

\* The body returns its parameter number ret, or the literal 7 when ret = 0;
\* the arguments are the integers 1..j.
CallProgram(k, j, ret) ==
    Program(<<
        LetStatement("f",
            FunctionLiteral(SubSeq(ParameterNames, 1, k),
                            Block1(IF ret = 0 THEN IntegerLiteral(7)
                                   ELSE Identifier(ParameterNames[ret])),
                            "")),
        ExpressionStatement(
            CallExpression(Identifier("f"), [i \in 1..j |-> IntegerLiteral(i)]))>>)

InitCalls ==
    \E k \in 0..MaxParams, j \in 0..MaxArgs, ret \in 0..MaxParams :
        /\ ret <= k
        /\ InitBackends(CallProgram(k, j, ret), <<>>)

SpecCalls == InitCalls /\ [][NextBackends]_vars

\* The parameters the function of a call program declares, and the
\* arguments its call passes.
DeclaredParameters == Len(program.Statements[1].Value.Parameters)
PassedArguments == Len(program.Statements[2].Expression.Arguments)

WrongNumberOfArguments(msg, want, got) ==
    \/ msg = "wrong number of arguments: want=" \o ToString(want) \o ", got=" \o ToString(got)
    \/ msg = "wrong number of arguments. got=" \o ToString(got) \o ", want=" \o ToString(want)

\* C2: calling a user function that declares k parameters with j # k
\* arguments yields a `wrong number of arguments` error in both back ends:
\* an Error value in the evaluator; in the VM Run fails with
\* `wrong number of arguments: want=k, got=j` and pushes no frame.
C2_WrongNumberOfArguments ==
    DeclaredParameters # PassedArguments =>
        /\ evalOut.status # "idle" =>
              /\ evalOut.status = "done"
              /\ isError(evalOut.r)
              /\ WrongNumberOfArguments(evalOut.r.val, DeclaredParameters, PassedArguments)
        /\ vm.status \notin {"idle", "running"} =>
              /\ vm.status = "error"
              /\ vm.err = "wrong number of arguments: want=" \o ToString(DeclaredParameters)
                          \o ", got=" \o ToString(PassedArguments)
              /\ vm.framesIndex = 1

(***************************************************************************)
(* Closures:                                                               *)
(*   let newAdder = fn(x) { fn(y) { x + y } };                             *)
(*   let g = newAdder(a); let h = newAdder(b);                             *)
(*   newAdder(c); ...            later calls of the outer function         *)
(*   g(d)  |  h(d)  |  g(d) - h(d)                                         *)
(***************************************************************************)
MaxCaptured == 2
MaxLaterCalls == 1

IntArg(n) == <<IntegerLiteral(n)>>

ClosureUses == {"g", "h", "g - h"}

ClosureUse(use, d) ==
    CASE use = "g" -> CallExpression(Identifier("g"), IntArg(d))
      [] use = "h" -> CallExpression(Identifier("h"), IntArg(d))
      [] use = "g - h" -> InfixExpression("-", CallExpression(Identifier("g"), IntArg(d)),
                                               CallExpression(Identifier("h"), IntArg(d)))

ClosureProgram(a, b, c, later, use, d) ==
    Program(
        <<LetStatement("newAdder",
              FunctionLiteral(<<"x">>,
                  Block1(FunctionLiteral(<<"y">>,
                             Block1(InfixExpression("+", Identifier("x"), Identifier("y"))),
                             "")),
                  "")),
          LetStatement("g", CallExpression(Identifier("newAdder"), IntArg(a))),
          LetStatement("h", CallExpression(Identifier("newAdder"), IntArg(b)))>>
        \o [i \in 1..later |->
               ExpressionStatement(CallExpression(Identifier("newAdder"), IntArg(c)))]
        \o <<ExpressionStatement(ClosureUse(use, d))>>)

InitClosures ==
    \E a \in 0..MaxCaptured, b \in 0..MaxCaptured, c \in 0..MaxCaptured,
       later \in 0..MaxLaterCalls, use \in ClosureUses, d \in 0..1 :
        /\ later = 0 => c = 0
        /\ InitBackends(ClosureProgram(a, b, c, later, use, d), <<>>)

SpecClosures == InitClosures /\ [][NextBackends]_vars

\* What a closure program is made of: the x of g, the x of h, the later calls
\* of newAdder and the closure call(s) of the last statement.
CapturedByG == program.Statements[2].Value.Arguments[1].Value
CapturedByH == program.Statements[3].Value.Arguments[1].Value
LaterCalls == Len(program.Statements) - 4
LastUse == program.Statements[Len(program.Statements)].Expression
UsesBoth == LastUse.k = "InfixExpression"
UsedClosure == IF UsesBoth THEN "g - h" ELSE LastUse.Function.Value
UseArgument ==
    IF UsesBoth THEN LastUse.Left.Arguments[1].Value ELSE LastUse.Arguments[1].Value

\* The value the program has when each closure still uses the x of the call
\* that built it.
ValueWithCaptures ==
    CASE UsedClosure = "g" -> CapturedByG + UseArgument
      [] UsedClosure = "h" -> CapturedByH + UseArgument
      [] UsedClosure = "g - h" -> CapturedByG - CapturedByH

IsInteger(o, n) == o.type = "INTEGER" /\ o.val = n

\* C3: a closure built by a call of fn(x) { fn(y) { x + y } } keeps the x of
\* the call that built it: invoked after the outer call returned, and after
\* later calls of the outer function with other arguments, it still uses that
\* x, and the closures of two outer calls do not share their captured values.
\* In both back ends.
C3_ClosureKeepsCaptured ==
    /\ evalOut.status # "idle" =>
          evalOut.status = "done" /\ IsInteger(evalOut.r, ValueWithCaptures)
    /\ vm.status \notin {"idle", "running"} =>
          vm.status = "done" /\ IsInteger(LastPoppedStackElem(vm), ValueWithCaptures)

\* Both back ends are done with a program whose g and h captured different
\* values, that called newAdder again with a third value, then invoked g.
C3_Witness ==
    /\ BothFinished
    /\ CapturedByG # CapturedByH
    /\ LaterCalls >= 1
    /\ program.Statements[4].Expression.Arguments[1].Value \notin {CapturedByG, CapturedByH}
    /\ UsedClosure = "g"
    /\ IsInteger(evalOut.r, CapturedByG + UseArgument)
    /\ IsInteger(LastPoppedStackElem(vm), CapturedByG + UseArgument)

(***************************************************************************)
(* Blocks with a let binding in them:                                      *)
(*   if (true) { let a = n; a + m }                                        *)
(*   let f = fn() { let a = n; a + m }; f()                                *)
(*   fn(x) { let a = x; a + m }(n)                                         *)
(***************************************************************************)
LetBlock(value, m) ==
    BlockStatement(<<LetStatement("a", value),
                     ExpressionStatement(
                         InfixExpression("+", Identifier("a"), IntegerLiteral(m)))>>)

LetBlockShapes == {"if", "let fn", "fn"}

LetBlockProgram(shape, n, m) ==
    CASE shape = "if" ->
             Program1(IfExpression(Boolean(TRUE), LetBlock(IntegerLiteral(n), m), NilNode))
      [] shape = "let fn" ->
             Program(<<LetStatement("f", FunctionLiteral(<<>>, LetBlock(IntegerLiteral(n), m), "")),
                       ExpressionStatement(CallExpression(Identifier("f"), <<>>))>>)
      [] shape = "fn" ->
             Program1(CallExpression(FunctionLiteral(<<"x">>, LetBlock(Identifier("x"), m), ""),
                                     IntArg(n)))

InitLetBlocks ==
    \E shape \in LetBlockShapes, n \in 0..MaxInt, m \in 0..MaxInt :
        InitBackends(LetBlockProgram(shape, n, m), <<>>)

SpecLetBlocks == InitLetBlocks /\ [][NextBackends]_vars

\* The block of a let-block program, and the value of its last statement.
TheLetBlock ==
    LET e == program.Statements[1]
    IN CASE e.k = "LetStatement" -> e.Value.Body
         [] e.Expression.k = "IfExpression" -> e.Expression.Consequence
         [] OTHER -> e.Expression.Function.Body

LetBlockValue ==
    LET e == program.Statements[1]
        n == IF e.k = "ExpressionStatement" /\ e.Expression.k = "CallExpression"
             THEN e.Expression.Arguments[1].Value
             ELSE TheLetBlock.Statements[1].Value.Value
    IN n + TheLetBlock.Statements[2].Expression.Right.Value

\* C4: in the evaluator a block (a function body or an if branch) with a let
\* binding among its statements is evaluated to its end without a host fault:
\* the let yields no value, the statements after it are evaluated in order and
\* the value of the block is the value of its last statement.
C4_BlockWithLet ==
    evalOut.status # "idle" =>
        /\ evalOut.status = "done"
        /\ IsInteger(evalOut.r, LetBlockValue)
        /\ \E i \in 1..Len(evalOut.st.trace) :
               evalOut.st.trace[i].k = "ExpressionStatement"
               /\ evalOut.st.trace[i].Expression.k = "InfixExpression"

(***************************************************************************)
(* Programs run by the evaluator alone.                                    *)
(***************************************************************************)
NextEvaluator == RunEvaluator

(***************************************************************************)
(* An expression that evaluates to an Error, at each place of a            *)
(* subexpression, up to MaxPlaces deep, in a let or an expression          *)
(* statement, with a statement after it.                                   *)
(***************************************************************************)
ErrorExpressions ==
    <<PrefixExpression("-", Boolean(TRUE)),
      Identifier("foo"),
      InfixExpression("-", StringLiteral(<<97>>), StringLiteral(<<97>>))>>

IsErrorExpression(n) ==
    \/ n.k = "PrefixExpression" /\ n.Operator = "-"
    \/ n.k = "Identifier" /\ n.Value = "foo"
    \/ n.k = "InfixExpression" /\ n.Operator = "-"

ErrorMessage(n) ==
    CASE n.k = "PrefixExpression" -> "unknown operator: -BOOLEAN"
      [] n.k = "Identifier" -> "identifier not found: foo"
      [] n.k = "InfixExpression" -> "unknown operator: STRING - STRING"

\* What comes before the failing subexpression, what comes after it in the
\* same node, and the statement after the failing one.
Earlier == IntegerLiteral(1)
Later == IntegerLiteral(99)
LaterStatement == ExpressionStatement(IntegerLiteral(98))

IsLater(n) == n.k = "IntegerLiteral" /\ n.Value \in {98, 99}

Places ==
    {"infix left", "infix right", "prefix operand", "callee", "first argument",
     "second argument", "array element", "hash key", "hash value", "first pair",
     "index left", "index", "if condition"}

\* ord is the order in which this run visits the two pairs of a hash literal.
Place(place, e, ord) ==
    CASE place = "infix left" -> InfixExpression("+", e, Later)
      [] place = "infix right" -> InfixExpression("+", Earlier, e)
      [] place = "prefix operand" -> PrefixExpression("!", e)
      [] place = "callee" -> CallExpression(e, <<Later>>)
      [] place = "first argument" -> CallExpression(Identifier("len"), <<e, Later>>)
      [] place = "second argument" -> CallExpression(Identifier("len"), <<Earlier, e, Later>>)
      [] place = "array element" -> ArrayLiteral(<<Earlier, e, Later>>)
      [] place = "hash key" -> HashLiteral(<< <<e, Later>> >>)
      [] place = "hash value" -> HashLiteral(<< <<Earlier, e>> >>)
      [] place = "first pair" ->
             HashLiteral([i \in 1..2 |-> IF i = ord[1] THEN <<Earlier, e>>
                                         ELSE <<Later, Later>>])
      [] place = "index left" -> IndexExpression(e, Later)
      [] place = "index" -> IndexExpression(ArrayLiteral(<<Earlier>>), e)
      [] place = "if condition" -> IfExpression(e, Block1(Later), Block1(Later))
      [] place = "none" -> e

MaxPlaces == 2

\* e at places[i] of a node at places[i - 1] of ... a node at places[1].
RECURSIVE PlaceAll(_, _, _, _)
PlaceAll(places, i, e, ord) ==
    IF i > Len(places) THEN e
    ELSE Place(places[i], PlaceAll(places, i + 1, e, ord), ord)

ErrorProgram(statement, places, e, ord) ==
    LET expression == PlaceAll(places, 1, e, ord)
    IN Program(<<IF statement = "let" THEN LetStatement("a", expression)
                 ELSE ExpressionStatement(expression),
                 LaterStatement>>)

Orders2 == {<<1, 2>>, <<2, 1>>}

InitErrors ==
    \E statement \in {"let", "expression"}, ord \in Orders2,
       places \in [1..MaxPlaces -> Places \cup {"none"}] :
        \E i \in 1..Len(ErrorExpressions) :
            /\ places[MaxPlaces] # "none"
            /\ (\A j \in 1..MaxPlaces : places[j] # "first pair") => ord = <<1, 2>>
            /\ InitBackends(ErrorProgram(statement, places, ErrorExpressions[i], ord),
                            <<<<1>>, ord>>)

SpecErrors == InitErrors /\ [][NextEvaluator]_vars

\* The subexpressions of a node.
Children(n) ==
    CASE n.k = "PrefixExpression" -> <<n.Right>>
      [] n.k = "InfixExpression" -> <<n.Left, n.Right>>
      [] n.k = "CallExpression" -> <<n.Function>> \o n.Arguments
      [] n.k = "ArrayLiteral" -> n.Elements
      [] n.k = "HashLiteral" ->
             [i \in 1..(2 * Len(n.Pairs)) |-> n.Pairs[(i + 1) \div 2][2 - (i % 2)]]
      [] n.k = "IndexExpression" -> <<n.Left, n.Index>>
      [] n.k = "IfExpression" -> <<n.Condition>>
      [] OTHER -> <<>>

RECURSIVE HasErrorExpression(_)
HasErrorExpression(n) ==
    \/ IsErrorExpression(n)
    \/ \E i \in 1..Len(Children(n)) : HasErrorExpression(Children(n)[i])

\* The failing expression of a node that has one.
RECURSIVE TheErrorExpression(_)
TheErrorExpression(n) ==
    IF IsErrorExpression(n) THEN n
    ELSE LET c == Children(n)
             i == CHOOSE j \in 1..Len(c) : HasErrorExpression(c[j])
         IN TheErrorExpression(c[i])

FailingStatement == program.Statements[1]
FailingExpression ==
    TheErrorExpression(IF FailingStatement.k = "LetStatement" THEN FailingStatement.Value
                       ELSE FailingStatement.Expression)

\* C5: in the evaluator, as soon as a subexpression (an infix or prefix
\* operand, a callee, a call argument, an array element, a hash key or value,
\* an index operand, an if condition, a let value) evaluates to an Error, that
\* same Error is the result of the enclosing node and of the whole program, and
\* no later sibling subexpression and no later statement is evaluated.
C5_FirstErrorIsResult ==
    evalOut.status # "idle" =>
        /\ evalOut.status = "done"
        /\ isError(evalOut.r)
        /\ evalOut.r.val = ErrorMessage(FailingExpression)
        /\ evalOut.r.id = Len(evalOut.st.objs)
        /\ \A i \in 1..Len(evalOut.st.trace) :
               /\ ~IsLater(evalOut.st.trace[i])
               /\ evalOut.st.trace[i].k = "ExpressionStatement"
                      => ~IsLater(evalOut.st.trace[i].Expression)
        /\ ~EnvHas(evalOut.st.envs, 1, "a")

\* The evaluator returned the Error of the second argument of a call that is
\* itself the value of a pair of a hash literal visited in the order 2, 1,
\* in a let.
C5_Witness ==
    /\ evalOut.status = "done"
    /\ isError(evalOut.r)
    /\ order[2] = <<2, 1>>
    /\ FailingStatement.k = "LetStatement"
    /\ FailingStatement.Value.k = "HashLiteral"
    /\ Len(FailingStatement.Value.Pairs) = 2
    /\ FailingStatement.Value.Pairs[2][2].k = "CallExpression"
    /\ Len(FailingStatement.Value.Pairs[2][2].Arguments) = 3
    /\ \E i \in 1..Len(evalOut.st.trace) : IsErrorExpression(evalOut.st.trace[i])

(***************************************************************************)
(* A return in nested if blocks, each block with a statement after the     *)
(* if, at the top of the program or in the body of a function f:           *)
(*   if (true) { if (false) { 97 } else { return v; 99 } 99 } 99           *)
(***************************************************************************)
MaxDepth == 2

AfterReturn == ExpressionStatement(IntegerLiteral(99))
NotTaken == Block1(IntegerLiteral(97))

\* The statements of a block with the return `depth` if blocks down;
\* branches[i] says which branch of the i-th if leads to it.
RECURSIVE NestedReturn(_, _, _, _)
NestedReturn(depth, i, branches, v) ==
    IF i > depth THEN <<ReturnStatement(v), AfterReturn>>
    ELSE LET inner == BlockStatement(NestedReturn(depth, i + 1, branches, v))
         IN <<ExpressionStatement(
                  IF branches[i] = "then"
                  THEN IfExpression(Boolean(TRUE), inner,
                                    IF i = 1 THEN NilNode ELSE NotTaken)
                  ELSE IfExpression(Boolean(FALSE), NotTaken, inner)),
              AfterReturn>>

ReturnPlaces == {"program", "call", "let call"}

ReturnProgram(place, depth, branches, v) ==
    LET stmts == NestedReturn(depth, 1, branches, v)
        f == LetStatement("f", FunctionLiteral(<<>>, BlockStatement(stmts), ""))
        call == CallExpression(Identifier("f"), <<>>)
    IN CASE place = "program" -> Program(stmts)
         [] place = "call" -> Program(<<f, ExpressionStatement(call)>>)
         [] place = "let call" ->
                Program(<<f, LetStatement("a", call), ExpressionStatement(Identifier("a"))>>)

InitReturns ==
    \E place \in ReturnPlaces, depth \in 0..MaxDepth,
       branches \in [1..MaxDepth -> {"then", "else"}] :
        \E i \in 1..Len(Atoms) :
            /\ \A j \in 1..MaxDepth : j > depth => branches[j] = "then"
            /\ InitBackends(ReturnProgram(place, depth, branches, Atoms[i]), <<>>)

SpecReturns == InitReturns /\ [][NextEvaluator]_vars

\* The statements the return is nested in, and the return statement itself.
ReturnStatements ==
    IF program.Statements[1].k = "LetStatement" THEN program.Statements[1].Value.Body.Statements
    ELSE program.Statements

RECURSIVE TheReturn(_)
TheReturn(stmts) ==
    IF stmts[1].k = "ReturnStatement" THEN stmts[1]
    ELSE LET if == stmts[1].Expression
         IN TheReturn(IF if.Condition.Value THEN if.Consequence.Statements
                      ELSE if.Alternative.Statements)

RECURSIVE ReturnDepth(_)
ReturnDepth(stmts) ==
    IF stmts[1].k = "ReturnStatement" THEN 0
    ELSE LET if == stmts[1].Expression
         IN 1 + ReturnDepth(IF if.Condition.Value THEN if.Consequence.Statements
                            ELSE if.Alternative.Statements)

\* The object a literal evaluates to.
IsValueOf(o, literal) ==
    /\ o.type = CASE literal.k = "IntegerLiteral" -> "INTEGER"
                  [] literal.k = "FloatLiteral" -> "FLOAT"
                  [] literal.k = "Boolean" -> "BOOLEAN"
                  [] literal.k = "StringLiteral" -> "STRING"
    /\ o.val = literal.Value

IsAfterReturn(n) == n.k = "IntegerLiteral" /\ n.Value = 99

MaxTokens == 4

Alphabet ==
    <<Token("LET", "let"), Token("RETURN", "return"), Token("IMPORT", "import"),
      Token("IDENT", "a"), Token("INT", <<"5">>), Token("STRING", <<102>>),
      Token("=", "="), Token(";", ";"), Token("+", "+")>>

\* The j-th input of n tokens, j in 0 .. Len(Alphabet)^n - 1.
Input(n, j) ==
    [i \in 1..n |-> Alphabet[((j \div (Len(Alphabet) ^ (i - 1))) % Len(Alphabet)) + 1]]

InitParserOn(tokens) ==
    /\ program = Program(<<>>)
    /\ order = <<>>
    /\ evalOut = NotEvaluated(<<>>)
    /\ vm = NotStarted
    /\ ps = StartParser(tokens)
    /\ lx = NoLexer
    /\ symtabs = NoSymbolTables

\* Inputs with blocks:
\*   if (a) { let = 5; }       fn() { = }
\*   let a = fn() { return 5; };       if (a) { a } else { 5 }
BlockInputs ==
    LET let == Alphabet[1]
        return == Alphabet[2]
        a == Alphabet[4]
        five == Alphabet[5]
        assign == Alphabet[7]
        semicolon == Alphabet[8]
        if == Token("IF", "if")
        else == Token("ELSE", "else")
        fn == Token("FUNCTION", "fn")
        lparen == Token("(", "(")
        rparen == Token(")", ")")
        lbrace == Token("{", "{")
        rbrace == Token("}", "}")
    IN << <<if, lparen, a, rparen, lbrace, let, assign, five, semicolon, rbrace>>,
          <<fn, lparen, rparen, lbrace, assign, rbrace>>,
          <<let, a, assign, fn, lparen, rparen, lbrace, return, five, semicolon, rbrace,
            semicolon>>,
          <<if, lparen, a, rparen, lbrace, a, rbrace, else, lbrace, five, rbrace>> >>

InitParser ==
    \/ \E n \in 0..MaxTokens :
           \E j \in 0..((Len(Alphabet) ^ n) - 1) : InitParserOn(Input(n, j))
    \/ \E i \in 1..Len(BlockInputs) : InitParserOn(BlockInputs[i])

SpecParser == InitParser /\ [][NextParser]_vars

\* C7: ParseProgram terminates on every finite input: the `;` that ends a let
\* or a return statement is optional, so a let statement, a return statement
\* or an import expression that reaches the end of the input without a `;` is
\* still parsed and ParseProgram returns; no statement is parsed for ever.
C7_ParseProgramTerminates == ps.pc # "hung"

\* A statement list holds only statements that are not null, with the
\* children they require, and so do the blocks inside them.
RECURSIVE StatementsAreWhole(_)
RECURSIVE BlocksAreWhole(_)
StatementIsWhole(stmt) ==
    CASE stmt.k = "LetStatement" -> stmt.Value.k # "nil" /\ BlocksAreWhole(stmt.Value)
      [] stmt.k = "ReturnStatement" ->
             stmt.ReturnValue.k # "nil" /\ BlocksAreWhole(stmt.ReturnValue)
      [] stmt.k = "ExpressionStatement" ->
             stmt.Expression.k # "nil" /\ BlocksAreWhole(stmt.Expression)
      [] OTHER -> FALSE

StatementsAreWhole(stmts) == \A i \in 1..Len(stmts) : StatementIsWhole(stmts[i])

BlocksAreWhole(e) ==
    CASE e.k = "IfExpression" ->
             /\ BlocksAreWhole(e.Condition)
             /\ StatementsAreWhole(e.Consequence.Statements)
             /\ e.Alternative.k # "nil" => StatementsAreWhole(e.Alternative.Statements)
      [] e.k = "FunctionLiteral" -> StatementsAreWhole(e.Body.Statements)
      [] OTHER -> \A i \in 1..Len(Children(e)) : BlocksAreWhole(Children(e)[i])

\* C8: when the production of a statement fails (a let without identifier or
\* without `=`, an expression with no prefix parser), the parser records an
\* error and drops the failed node: the statement lists of the Program that
\* ParseProgram returns and of every block hold only statements that are not
\* null and whose required children (name, value, expression) are not null.
C8_FailedNodesDropped ==
    ps.pc = "returned" => StatementsAreWhole(program.Statements)

(***************************************************************************)
(* ParseProgram on one expression statement: up to MaxOperands operands    *)
(* with an infix operator between each two.  The operands are a, b, ..,    *)
(* each as an identifier, negated, called, or indexed under a `!`:         *)
(*   a      -a      a(x)      !a[x]                                        *)
(***************************************************************************)
MaxOperands == 3

OperandNames == <<"a", "b", "c", "d", "e">>
OperandForms == {"a", "-a", "a(x)", "!a[x]"}

Symbol1(literal) == Token(literal, literal)

OperandTokens(form, name) ==
    CASE form = "a" -> <<Token("IDENT", name)>>
      [] form = "-a" -> <<Symbol1("-"), Token("IDENT", name)>>
      [] form = "a(x)" ->
             <<Token("IDENT", name), Symbol1("("), Token("IDENT", "x"), Symbol1(")")>>
      [] form = "!a[x]" ->
             <<Symbol1("!"), Token("IDENT", name), Symbol1("["), Token("IDENT", "x"),
               Symbol1("]")>>

\* operand 1, operator 1, operand 2, .., operand n
RECURSIVE ExpressionTokens(_, _, _)
ExpressionTokens(forms, ops, n) ==
    IF n = 1 THEN OperandTokens(forms[1], OperandNames[1])
    ELSE ExpressionTokens(forms, ops, n - 1) \o <<Symbol1(ops[n - 1])>>
         \o OperandTokens(forms[n], OperandNames[n])

InitPrecedence ==
    \E n \in 1..MaxOperands :
        \E forms \in [1..n -> OperandForms], ops \in [1..(n - 1) -> InfixOperators] :
            InitParserOn(ExpressionTokens(forms, ops, n))

SpecPrecedence == InitPrecedence /\ [][NextParser]_vars

\* The tokens of an expression, read off its tree from left to right.
RECURSIVE Leaves(_)
Leaves(e) ==
    CASE e.k = "Identifier" -> <<e.Value>>
      [] e.k = "PrefixExpression" -> <<e.Operator>> \o Leaves(e.Right)
      [] e.k = "InfixExpression" -> Leaves(e.Left) \o <<e.Operator>> \o Leaves(e.Right)
      [] e.k = "CallExpression" ->
             Leaves(e.Function) \o <<"(">> \o Leaves(e.Arguments[1]) \o <<")">>
      [] e.k = "IndexExpression" -> Leaves(e.Left) \o <<"[">> \o Leaves(e.Index) \o <<"]">>

\* The levels of the operators, lowest first.
Level(e) ==
    CASE e.k = "InfixExpression" ->
             (CASE e.Operator \in {"==", "!="} -> 1
                [] e.Operator \in {"<", ">"} -> 2
                [] e.Operator \in {"+", "-"} -> 3
                [] e.Operator \in {"*", "/"} -> 4)
      [] e.k = "PrefixExpression" -> 5
      [] e.k = "CallExpression" -> 6
      [] e.k = "IndexExpression" -> 7
      [] OTHER -> 8

\* Every operand of an operator is of a higher level than the operator,
\* but for the left operand of an infix operator, which may be of its level.
RECURSIVE GroupedByLevel(_)
GroupedByLevel(e) ==
    CASE e.k = "InfixExpression" ->
             /\ Level(e.Left) >= Level(e) /\ GroupedByLevel(e.Left)
             /\ Level(e.Right) > Level(e) /\ GroupedByLevel(e.Right)
      [] e.k = "PrefixExpression" -> Level(e.Right) > Level(e) /\ GroupedByLevel(e.Right)
      [] e.k = "CallExpression" -> Level(e.Function) > Level(e) /\ GroupedByLevel(e.Function)
      [] e.k = "IndexExpression" -> Level(e.Left) > Level(e) /\ GroupedByLevel(e.Left)
      [] OTHER -> TRUE

\* C9: for every expression over identifiers the parser groups the operators
\* by the order EQUALS (== !=) < LESSGREATER (< >) < SUM (+ -) < PRODUCT (* /)
\* < PREFIX (! -) < CALL < INDEX, and two infix operators of one level group
\* to the left: a op1 b op2 c is ((a op1 b) op2 c).
C9_GroupedByPrecedence ==
    /\ LOWEST < EQUALS /\ EQUALS < LESSGREATER /\ LESSGREATER < SUM /\ SUM < PRODUCT
    /\ PRODUCT < PREFIX /\ PREFIX < CALL /\ CALL < INDEX
    /\ ps.pc = "returned" =>
          /\ ps.p.errors = <<>>
          /\ Len(program.Statements) = 1
          /\ program.Statements[1].k = "ExpressionStatement"
          /\ Leaves(program.Statements[1].Expression)
                 = [i \in 1..Len(ps.p.tokens) |-> ps.p.tokens[i].Literal]
          /\ GroupedByLevel(program.Statements[1].Expression)

\* ParseProgram returned a + (-b * c(x)), or the like: a lower operator, then a
\* higher one whose operands are a prefix and a call expression.
C9_Witness ==
    /\ ps.pc = "returned"
    /\ Len(program.Statements) = 1
    /\ LET e == program.Statements[1].Expression
       IN /\ e.k = "InfixExpression"
          /\ e.Operator = "+"
          /\ e.Left.k = "Identifier"
          /\ e.Right.k = "InfixExpression"
          /\ e.Right.Operator = "*"
          /\ e.Right.Left.k = "PrefixExpression"
          /\ e.Right.Right.k = "CallExpression"

\* ParseProgram returned (a - b) + c, or the like: two operators of one level.
C9_WitnessLeft ==
    /\ ps.pc = "returned"
    /\ Len(program.Statements) = 1
    /\ LET e == program.Statements[1].Expression
       IN /\ e.k = "InfixExpression"
          /\ e.Operator = "+"
          /\ e.Left.k = "InfixExpression"
          /\ e.Left.Operator = "-"

(***************************************************************************)
(* A hash literal of up to MaxPairs pairs with different keys, indexed:    *)
(*   {k1: 11, k2: 12}[index]                                               *)
(* The keys are 0 .. MaxInt, true, false, "a", "b"; the index is one of    *)
(* them, or fn() { 1 }, [1], {}.                                           *)
(***************************************************************************)
MaxPairs == 2

HashKeys ==
    [i \in 1..(MaxInt + 1) |-> IntegerLiteral(i - 1)]
    \o <<Boolean(TRUE), Boolean(FALSE), StringLiteral(<<97>>), StringLiteral(<<98>>)>>

NotHashable ==
    <<FunctionLiteral(<<>>, Block1(IntegerLiteral(1)), ""),
      ArrayLiteral(<<IntegerLiteral(1)>>),
      HashLiteral(<<>>)>>

Indexes == HashKeys \o NotHashable

HashProgram(keys, index) ==
    Program1(IndexExpression(
                 HashLiteral([i \in 1..Len(keys) |->
                                 <<HashKeys[keys[i]], IntegerLiteral(10 + i)>>]),
                 Indexes[index]))

\* The evaluator visits the pairs of the literal in the order perm.
InitHashes ==
    \E n \in 0..MaxPairs :
        \E keys \in [1..n -> 1..Len(HashKeys)], perm \in Permutations(1..n),
           index \in 1..Len(Indexes) :
            /\ \A i, j \in 1..n : keys[i] = keys[j] => i = j
            /\ InitBackends(HashProgram(keys, index),
                            [m \in 1..MaxPairs |->
                                IF m = n THEN perm ELSE [i \in 1..m |-> i]])

SpecHashes == InitHashes /\ [][NextBackends]_vars

TheHashLiteral == program.Statements[1].Expression.Left
TheIndex == program.Statements[1].Expression.Index

SameLiteral(a, b) == a.k = b.k /\ a.Value = b.Value

IndexIsHashable == TheIndex.k \in {"IntegerLiteral", "Boolean", "StringLiteral"}

PairsOfIndex ==
    {i \in 1..Len(TheHashLiteral.Pairs) : SameLiteral(TheHashLiteral.Pairs[i][1], TheIndex)}

\* What indexing yields: the value paired with the key, Null without the key.
IsIndexed(o) ==
    IF PairsOfIndex = {} THEN o.type = "NULL"
    ELSE \E i \in PairsOfIndex : IsInteger(o, TheHashLiteral.Pairs[i][2].Value)

\* The type of the object the index is, in the evaluator and in the VM.
IndexType(backend) ==
    CASE TheIndex.k = "FunctionLiteral" -> IF backend = "vm" THEN "CLOSURE" ELSE "FUNCTION"
      [] TheIndex.k = "ArrayLiteral" -> "ARRAY"
      [] TheIndex.k = "HashLiteral" -> "HASH"

\* C10: for every hash built from a literal and every key that is an integer,
\* a boolean or a string: indexing with a key of the type and value of a key
\* of the literal returns the paired value, indexing with an absent key
\* returns Null, and indexing with a value that is not hashable (a function,
\* an array, a hash) fails with `unusable as hash key: <type>`, the type being
\* that of the index object (FUNCTION in the evaluator and CLOSURE in the VM
\* for a function, ARRAY, HASH); the evaluator and the VM behave alike.
C10_HashIndex ==
    /\ evalOut.status # "idle" =>
          /\ evalOut.status = "done"
          /\ IF IndexIsHashable THEN IsIndexed(evalOut.r)
             ELSE /\ isError(evalOut.r)
                  /\ evalOut.r.val = "unusable as hash key: " \o IndexType("evaluator")
    /\ vm.status \notin {"idle", "running"} =>
          IF IndexIsHashable
          THEN vm.status = "done" /\ IsIndexed(LastPoppedStackElem(vm))
          ELSE /\ vm.status = "error"
               /\ vm.err = "unusable as hash key: " \o IndexType("vm")
    /\ BothFinished /\ IndexIsHashable => BackendsAgree

\* Both back ends are done with {1: 11, true: 12}[true], the evaluator having
\* visited the pair of true first, and yielded 12.
C10_Witness ==
    /\ BothFinished
    /\ Len(TheHashLiteral.Pairs) = 2
    /\ order[2] = <<2, 1>>
    /\ SameLiteral(TheHashLiteral.Pairs[1][1], IntegerLiteral(1))
    /\ SameLiteral(TheHashLiteral.Pairs[2][1], Boolean(TRUE))
    /\ SameLiteral(TheIndex, Boolean(TRUE))
    /\ IsInteger(evalOut.r, 12)
    /\ IsInteger(LastPoppedStackElem(vm), 12)

(***************************************************************************)
(* An array literal of n <= MaxElements elements 10, 11, ... indexed with  *)
(* an integer from -2 to n + 1, directly or through a let:                 *)
(*   [10, 11, 12][i]        let a = [10, 11, 12]; a[i]                     *)
(* A negative index is written with the prefix minus, as the parser reads  *)
(* it.                                                                     *)
(***************************************************************************)
MaxElements == 3

IndexLiteral(i) ==
    IF i < 0 THEN PrefixExpression("-", IntegerLiteral(-i)) ELSE IntegerLiteral(i)

ArrayOf(n) == ArrayLiteral([k \in 1..n |-> IntegerLiteral(9 + k)])

ArrayProgram(n, i, bound) ==
    IF bound
    THEN Program(<<LetStatement("a", ArrayOf(n)),
                   ExpressionStatement(IndexExpression(Identifier("a"), IndexLiteral(i)))>>)
    ELSE Program1(IndexExpression(ArrayOf(n), IndexLiteral(i)))

InitArrays ==
    \E n \in 0..MaxElements, bound \in BOOLEAN :
        \E i \in -2..(n + 1) :
            InitBackends(ArrayProgram(n, i, bound), <<>>)

SpecArrays == InitArrays /\ [][NextBackends]_vars

\* The array A and the index i of an array program.
TheArray ==
    IF program.Statements[1].k = "LetStatement" THEN program.Statements[1].Value
    ELSE program.Statements[1].Expression.Left

TheArrayIndex ==
    LET e == program.Statements[Len(program.Statements)].Expression.Index
    IN IF e.k = "PrefixExpression" THEN -e.Right.Value ELSE e.Value

\* o is A[i]: the element at position i, Null outside 0 .. n - 1.
IsElementAt(o) ==
    IF 0 <= TheArrayIndex /\ TheArrayIndex < Len(TheArray.Elements)
    THEN IsInteger(o, TheArray.Elements[TheArrayIndex + 1].Value)
    ELSE o.type = "NULL"

\* C11: for every array A of length n and every integer i, A[i] is the element
\* at position i when 0 <= i < n and Null otherwise (A[-1] and A[n] are Null,
\* not an error), in the evaluator and in the VM.
C11_ArrayIndex ==
    /\ evalOut.status # "idle" => evalOut.status = "done" /\ IsElementAt(evalOut.r)
    /\ vm.status \notin {"idle", "running"} =>
          vm.status = "done" /\ IsElementAt(LastPoppedStackElem(vm))

\* Both back ends are done with let a = [10, 11]; a[2]: the index is the
\* length of the array and the value is Null.
C11_Witness ==
    /\ BothFinished
    /\ program.Statements[1].k = "LetStatement"
    /\ Len(TheArray.Elements) = 2
    /\ TheArrayIndex = 2
    /\ evalOut.r.type = "NULL"
    /\ LastPoppedStackElem(vm).type = "NULL"

\* Both back ends are done with [10, 11, 12][-1], and with [10, 11, 12][2].
C11_WitnessBelow ==
    /\ BothFinished
    /\ Len(TheArray.Elements) = 3
    /\ TheArrayIndex = -1
    /\ evalOut.r.type = "NULL"
    /\ LastPoppedStackElem(vm).type = "NULL"

C11_WitnessLast ==
    /\ BothFinished
    /\ Len(TheArray.Elements) = 3
    /\ TheArrayIndex = 2
    /\ IsInteger(evalOut.r, 12)
    /\ IsInteger(LastPoppedStackElem(vm), 12)

(***************************************************************************)
(* Functions whose body binds x with a let, next to another binding of x:  *)
(*   1  let x = G; let f = fn() { let x = L; x }; f(); x                   *)
(*   2  let x = G; let f = fn() { let x = L; x }; x; f()                   *)
(*   3  let g = fn() { let x = G; let f = fn() { let x = L; x }; f(); x }; *)
(*      g()                                                                *)
(*   4  let f = fn() { let x = L; x };                                     *)
(*      let h = fn() { let x = G; f(); x }; h()                            *)
(*   5  let f = fn() { let x = L; x };                                     *)
(*      let h = fn() { let x = G; x }; f() * 10 + h()                      *)
(* G and L are integers 0 .. MaxInt.                                       *)
(***************************************************************************)
LetX(n) == LetStatement("x", IntegerLiteral(n))
UseX == ExpressionStatement(Identifier("x"))
CallOf(name) == CallExpression(Identifier(name), <<>>)
CallStatement(name) == ExpressionStatement(CallOf(name))
BindsX(l) == FunctionLiteral(<<>>, BlockStatement(<<LetX(l), UseX>>), "")

LocalsProgram(shape, g, l) ==
    CASE shape = 1 ->
           Program(<<LetX(g), LetStatement("f", BindsX(l)), CallStatement("f"), UseX>>)
      [] shape = 2 ->
           Program(<<LetX(g), LetStatement("f", BindsX(l)), UseX, CallStatement("f")>>)
      [] shape = 3 ->
           Program(<<LetStatement("g", FunctionLiteral(<<>>,
                         BlockStatement(<<LetX(g), LetStatement("f", BindsX(l)),
                                          CallStatement("f"), UseX>>), "")),
                     CallStatement("g")>>)
      [] shape = 4 ->
           Program(<<LetStatement("f", BindsX(l)),
                     LetStatement("h", FunctionLiteral(<<>>,
                         BlockStatement(<<LetX(g), CallStatement("f"), UseX>>), "")),
                     CallStatement("h")>>)
      [] shape = 5 ->
           Program(<<LetStatement("f", BindsX(l)),
                     LetStatement("h", BindsX(g)),
                     ExpressionStatement(
                         InfixExpression("+",
                             InfixExpression("*", CallOf("f"), IntegerLiteral(10)),
                             CallOf("h")))>>)

InitLocals ==
    \E shape \in 1..5, g \in 0..MaxInt, l \in 0..MaxInt :
        InitBackends(LocalsProgram(shape, g, l), <<>>)

SpecLocals == InitLocals /\ [][NextBackends]_vars

\* The shape of a locals program, and its G and L.
LocalsShape ==
    LET last == program.Statements[Len(program.Statements)].Expression
    IN CASE Len(program.Statements) = 4 -> IF last.k = "Identifier" THEN 1 ELSE 2
         [] Len(program.Statements) = 2 -> 3
         [] OTHER -> IF last.k = "CallExpression" THEN 4 ELSE 5

OuterX ==
    CASE LocalsShape \in {1, 2} -> program.Statements[1].Value.Value
      [] LocalsShape = 3 -> program.Statements[1].Value.Body.Statements[1].Value.Value
      [] OTHER -> program.Statements[2].Value.Body.Statements[1].Value.Value

LocalX ==
    CASE LocalsShape \in {1, 2} -> program.Statements[2].Value.Body.Statements[1].Value.Value
      [] LocalsShape = 3 ->
           program.Statements[1].Value.Body.Statements[2].Value.Body.Statements[1].Value.Value
      [] OTHER -> program.Statements[1].Value.Body.Statements[1].Value.Value

\* What the program yields when the let of f binds x in the frame of the call
\* of f and nowhere else.
LocalsValue ==
    CASE LocalsShape \in {1, 3, 4} -> OuterX
      [] LocalsShape = 2 -> LocalX
      [] LocalsShape = 5 -> LocalX * 10 + OuterX

EvaluatorKeepsLocals ==
    evalOut.status # "idle" => evalOut.status = "done" /\ IsInteger(evalOut.r, LocalsValue)

VMKeepsLocals ==
    vm.status \notin {"idle", "running"} =>
        vm.status = "done" /\ IsInteger(LastPoppedStackElem(vm), LocalsValue)

\* C12: a let inside a function body binds only in the frame of that call: the
\* binding of the same name in the enclosing function, in the globals and in
\* a call of another function keeps its value, and two functions that bind
\* the same local name each yield their own value.  In both back ends.
C12_LetBindsLocally == EvaluatorKeepsLocals /\ VMKeepsLocals

\* The VM is done with let x = 0; let f = fn() { let x = 1; x }; f(); x and
\* the value is the 0 of the global x.
C12_WitnessVM ==
    /\ vm.status = "done"
    /\ LocalsShape = 1
    /\ OuterX = 0
    /\ LocalX = 1
    /\ IsInteger(LastPoppedStackElem(vm), 0)

(***************************************************************************)
(* A function that calls itself by the name its let gives it, bound at top *)
(* level or inside another function's body, called with n <= MaxRecursion: *)
(*   let countDown = fn(x) { if (x == 0) { return 0; }                     *)
(*                           else { countDown(x - 1); } };                 *)
(*   countDown(n);                                                         *)
(*   let wrapper = fn() { let countDown = ...; countDown(n); }; wrapper(); *)
(* Only the compiler and the VM run.                                       *)
(***************************************************************************)
MaxRecursion == 3

NextVM == RunCompiler \/ VMStep

CountDown ==
    FunctionLiteral(<<"x">>,
        Block1(IfExpression(
            InfixExpression("==", Identifier("x"), IntegerLiteral(0)),
            BlockStatement(<<ReturnStatement(IntegerLiteral(0))>>),
            Block1(CallExpression(Identifier("countDown"),
                                  <<InfixExpression("-", Identifier("x"),
                                                    IntegerLiteral(1))>>)))),
        "")

CountDownFrom(n) ==
    <<LetStatement("countDown", CountDown),
      ExpressionStatement(CallExpression(Identifier("countDown"), <<IntegerLiteral(n)>>))>>

RecursionProgram(n, inside) ==
    IF inside
    THEN Program(<<LetStatement("wrapper",
                       FunctionLiteral(<<>>, BlockStatement(CountDownFrom(n)), "")),
                   CallStatement("wrapper")>>)
    ELSE Program(CountDownFrom(n))

InitRecursion ==
    \E n \in 0..MaxRecursion, inside \in BOOLEAN :
        InitBackends(RecursionProgram(n, inside), <<>>)

SpecRecursion == InitRecursion /\ [][NextVM]_vars

\* Whether countDown is bound inside wrapper, and the n it is called with.
BoundInside == program.Statements[1].Name = "wrapper"

FirstArgument ==
    LET stmts == IF BoundInside THEN program.Statements[1].Value.Body.Statements
                 ELSE program.Statements
    IN stmts[2].Expression.Arguments[1].Value

\* C13: in the compiler and VM a function bound by let name = fn(...) calls
\* itself by that name from its own body, with the let at top level and with
\* the let inside another function's body, and the chain of recursive calls
\* returns the base-case value to the first caller: countDown(n) is 0, and
\* only the main frame is left.
C13_RecursionByName ==
    vm.status \notin {"idle", "running"} =>
        /\ vm.status = "done"
        /\ IsInteger(LastPoppedStackElem(vm), 0)
        /\ vm.framesIndex = 1

\* The VM is done with countDown(2) bound inside wrapper, and yielded 0.
C13_Witness ==
    /\ vm.status = "done"
    /\ BoundInside
    /\ FirstArgument = 2
    /\ IsInteger(LastPoppedStackElem(vm), 0)

(***************************************************************************)
(* An array of n <= MaxElements elements 10, 11, ... with two names, one   *)
(* of them handed to push or pop and the other one looked at afterwards:   *)
(*   let a = [10, 11]; let b = a; push(a, 5); len(b)                       *)
(*   let a = [10, 11]; let b = a; push(a, 5); b[2]                         *)
(*   let a = [10, 11]; let b = a; push(a, 5) == b                          *)
(*   let a = [10, 11]; let b = a; pop(a); len(b)                           *)
(*   let a = [10, 11]; let b = a; pop(a); b[1]                             *)
(* The evaluator's own builtins map has push and no pop, so the pop        *)
(* programs are followed in the VM only.                                   *)
(***************************************************************************)
Pushed == MaxElements + 2

Call1(name, a) == CallExpression(Identifier(name), <<a>>)
Call2(name, a, b) == CallExpression(Identifier(name), <<a, b>>)

AliasProgram(n, op, look) ==
    LET change == IF op = "push" THEN Call2("push", Identifier("a"), IntegerLiteral(Pushed))
                  ELSE Call1("pop", Identifier("a"))
        last == IF op = "push" THEN n ELSE n - 1
    IN Program(<<LetStatement("a", ArrayOf(n)), LetStatement("b", Identifier("a"))>>
               \o CASE look = "len" ->
                         <<ExpressionStatement(change),
                           ExpressionStatement(Call1("len", Identifier("b")))>>
                    [] look = "last" ->
                         <<ExpressionStatement(change),
                           ExpressionStatement(IndexExpression(Identifier("b"),
                                                               IndexLiteral(last)))>>
                    [] look = "same" ->
                         <<ExpressionStatement(
                               InfixExpression("==", change, Identifier("b")))>>)

InitAliases ==
    \E n \in 0..MaxElements, op \in {"push", "pop"}, look \in {"len", "last", "same"} :
        /\ look = "same" => op = "push"
        /\ InitBackends(AliasProgram(n, op, look), <<>>)

SpecAliases == InitAliases /\ [][NextBackends]_vars

\* What an alias program is made of.
AliasLength == Len(program.Statements[1].Value.Elements)

AliasChange ==
    LET e == program.Statements[3].Expression
    IN IF e.k = "InfixExpression" THEN e.Left.Function.Value ELSE e.Function.Value

AliasLook ==
    LET e == program.Statements[Len(program.Statements)].Expression
    IN CASE e.k = "InfixExpression" -> "same"
         [] e.k = "CallExpression" -> "len"
         [] OTHER -> "last"

\* o is what the other name must show after the change.
SeenThroughAlias(o) ==
    CASE AliasLook = "len" ->
           IsInteger(o, IF AliasChange = "push" THEN AliasLength + 1
                        ELSE IF AliasLength > 0 THEN AliasLength - 1 ELSE 0)
      [] AliasLook = "last" ->
           IF AliasChange = "push" THEN IsInteger(o, Pushed) ELSE o.type = "NULL"
      [] AliasLook = "same" -> o.type = "BOOLEAN" /\ o.val = TRUE

\* The elements a and b have in the store after the change.
ChangedElements ==
    LET el == [k \in 1..AliasLength |-> 9 + k]
    IN IF AliasChange = "push" THEN Append(el, Pushed)
       ELSE IF AliasLength > 0 THEN SubSeq(el, 1, AliasLength - 1) ELSE el

ElementValues(objs, arr) == [k \in 1..Len(objs[arr.id]) |-> objs[arr.id][k].val]

\* C14: push(arr, x) and pop(arr) change the array object itself: after the
\* call the other name of the same array shows the new length and elements,
\* the one array object of the program holds the changed elements, and push
\* returns that same object, not a copy.  In the VM for push and pop, in the
\* evaluator for push.
C14_PushPopInPlace ==
    /\ vm.status \notin {"idle", "running"} =>
          /\ vm.status = "done"
          /\ SeenThroughAlias(LastPoppedStackElem(vm))
          /\ vm.globals[1] = vm.globals[2]
          /\ ElementValues(vm.objs, vm.globals[1]) = ChangedElements
    /\ evalOut.status # "idle" /\ AliasChange = "push" =>
          /\ evalOut.status = "done"
          /\ SeenThroughAlias(evalOut.r)
          /\ EnvGet(evalOut.st.envs, 1, "a") = EnvGet(evalOut.st.envs, 1, "b")
          /\ ElementValues(evalOut.st.objs, EnvGet(evalOut.st.envs, 1, "a")) = ChangedElements

\* Both back ends are done with let a = [10, 11]; let b = a; push(a, 5); b[2]
\* and yielded the 5.
C14_Witness ==
    /\ BothFinished
    /\ AliasChange = "push"
    /\ AliasLook = "last"
    /\ AliasLength = 2
    /\ IsInteger(evalOut.r, Pushed)
    /\ IsInteger(LastPoppedStackElem(vm), Pushed)

\* The VM is done with let a = [10, 11]; let b = a; pop(a); len(b), which is 1.
C14_WitnessPop ==
    /\ vm.status = "done"
    /\ AliasChange = "pop"
    /\ AliasLook = "len"
    /\ AliasLength = 2
    /\ IsInteger(LastPoppedStackElem(vm), 1)

(***************************************************************************)
(* A builtin of fixed arity called with N <= MaxArgs arguments, the first  *)
(* an array and the others integers:                                       *)
(*   len()   len([10])   len([10], 1)   len([10], 1, 2)                    *)
(* The VM knows every builtin by its index; the evaluator is followed for  *)
(* the names its own builtins map has.                                     *)
(***************************************************************************)
FixedArity ==
    <<<<"len", 1>>, <<"first", 1>>, <<"last", 1>>, <<"rest", 1>>, <<"pop", 1>>,
      <<"exp", 1>>, <<"push", 2>>, <<"join", 2>>, <<"random", 0>>>>

ArityArguments(n) ==
    [i \in 1..n |-> IF i = 1 THEN ArrayOf(1) ELSE IntegerLiteral(i - 1)]

ArityProgram(name, n) == Program1(CallExpression(Identifier(name), ArityArguments(n)))

InitArities ==
    \E b \in 1..Len(FixedArity), n \in 0..MaxArgs :
        InitBackends(ArityProgram(FixedArity[b][1], n), <<>>)

SpecArities == InitArities /\ [][NextBackends]_vars

\* The builtin an arity program calls, its arity M and the number N of
\* arguments of the call.
CalledBuiltin == program.Statements[1].Expression.Function.Value
ArityOfCalled ==
    LET b == CHOOSE i \in 1..Len(FixedArity) : FixedArity[i][1] = CalledBuiltin
    IN FixedArity[b][2]
GivenArguments == Len(program.Statements[1].Expression.Arguments)

WrongNumberMessage ==
    "wrong number of arguments. got=" \o ToString(GivenArguments)
        \o ", want=" \o ToString(ArityOfCalled)

IsWrongNumberError(o) == o.type = "ERROR" /\ o.val = WrongNumberMessage

ArityErrorOf(names) ==
    CalledBuiltin \in names /\ GivenArguments # ArityOfCalled =>
        /\ vm.status \notin {"idle", "running"} =>
              vm.status = "done" /\ IsWrongNumberError(LastPoppedStackElem(vm))
        /\ evalOut.status # "idle" /\ CalledBuiltin \in builtins =>
              evalOut.status = "done" /\ IsWrongNumberError(evalOut.r)

\* C15: every builtin with a fixed arity (len, first, last, rest, pop, exp
\* with 1; push, join with 2; random with 0), called with another number N of
\* arguments, returns an Error whose message is exactly
\* `wrong number of arguments. got=N, want=M` with M its arity.
C15_WrongNumberOfArguments ==
    ArityErrorOf({"len", "first", "last", "rest", "pop", "exp", "push", "join", "random"})

\* The same for the builtins other than random and exp.
ArityErrorButRandomExp ==
    ArityErrorOf({"len", "first", "last", "rest", "pop", "push", "join"})

(***************************************************************************)
(* Two tensor literals of one shape and n <= MaxData data elements each,   *)
(* added:                                                                  *)
(*   let a = @[2],[0.5, 1.5]; let b = @[2],[1.5, 1.5]; let c = a + b; c;   *)
(* The shape is [n] or [1, n]; the data elements are 0.5 and 1.5.          *)
(***************************************************************************)
MaxData == 2

DataValues == <<<<1, 2>>, <<3, 2>>>>

ShapeOf(n, flat) ==
    IF flat THEN <<n>> ELSE <<1, n>>

TensorOf(shape, data) ==
    TensorLiteral(ArrayLiteral([i \in 1..Len(shape) |-> IntegerLiteral(shape[i])]),
                  ArrayLiteral([i \in 1..Len(data) |-> FloatLiteral(DataValues[data[i]])]))

TensorProgram(shape, a, b) ==
    Program(<<LetStatement("a", TensorOf(shape, a)),
              LetStatement("b", TensorOf(shape, b)),
              LetStatement("c", InfixExpression("+", Identifier("a"), Identifier("b"))),
              ExpressionStatement(Identifier("c"))>>)

InitTensors ==
    \E n \in 1..MaxData, flat \in BOOLEAN :
        \E a \in [1..n -> 1..Len(DataValues)], b \in [1..n -> 1..Len(DataValues)] :
            InitBackends(TensorProgram(ShapeOf(n, flat), a, b), <<>>)

SpecTensors == InitTensors /\ [][NextBackends]_vars

\* The shape and the data of the two literals.
LiteralShape(t) == [i \in 1..Len(t.Shape.Elements) |-> t.Shape.Elements[i].Value]
LiteralData(t) == [i \in 1..Len(t.Data.Elements) |-> t.Data.Elements[i].Value]
TensorA == program.Statements[1].Value
TensorB == program.Statements[2].Value

\* o is a + b: a Tensor of the literals' shape whose i-th data element is a's
\* i-th plus b's i-th.
IsTensorSum(o) ==
    /\ o.type = "TENSOR"
    /\ o.val.Shape = LiteralShape(TensorA)
    /\ Len(o.val.Data) = Len(LiteralData(TensorA))
    /\ \A i \in 1..Len(o.val.Data) :
           o.val.Data[i] = FAdd(LiteralData(TensorA)[i], LiteralData(TensorB)[i])

VMAddsTensors ==
    vm.status \notin {"idle", "running"} =>
        vm.status = "done" /\ IsTensorSum(LastPoppedStackElem(vm))

EvaluatorAddsTensors ==
    evalOut.status # "idle" => evalOut.status = "done" /\ IsTensorSum(evalOut.r)

\* C16: for two tensors a and b written as tensor literals with the same shape
\* and the same number of data elements, a + b yields, in the evaluator and in
\* the VM, a Tensor whose shape is that shape and whose i-th data element is
\* a's i-th plus b's i-th.
C16_TensorAdd == EvaluatorAddsTensors /\ VMAddsTensors

\* The VM is done with @[1, 2],[0.5, 1.5] + @[1, 2],[1.5, 1.5]: the data of
\* the sum is 2.0, 3.0.
C16_WitnessVM ==
    /\ vm.status = "done"
    /\ LiteralShape(TensorA) = <<1, 2>>
    /\ LiteralData(TensorA) = <<<<1, 2>>, <<3, 2>>>>
    /\ LiteralData(TensorB) = <<<<3, 2>>, <<3, 2>>>>
    /\ LastPoppedStackElem(vm).type = "TENSOR"
    /\ LastPoppedStackElem(vm).val.Data = <<<<2, 1>>, <<3, 1>>>>

(***************************************************************************)
(* A statement that fails at run time, followed by the statement 99:       *)
(*   -true; 99        1 + true; 99      1[0]; 99       {}[[1]]; 99         *)
(*   1(2); 99         fn(a) { a }(); 99                                    *)
(*   @[1],[0.5] + @[2],[0.5, 0.5]; 99                                      *)
(*   len(1); 99       len(); 99         first(1); 99   push(1, 2); 99      *)
(* Only the compiler and the VM run.                                       *)
(***************************************************************************)
VMErrorExpressions ==
    <<PrefixExpression("-", Boolean(TRUE)),
      InfixExpression("+", IntegerLiteral(1), Boolean(TRUE)),
      IndexExpression(IntegerLiteral(1), IntegerLiteral(0)),
      IndexExpression(HashLiteral(<<>>), ArrayLiteral(<<IntegerLiteral(1)>>)),
      CallExpression(IntegerLiteral(1), <<IntegerLiteral(2)>>),
      CallExpression(FunctionLiteral(<<"a">>, Block1(Identifier("a")), ""), <<>>),
      InfixExpression("+", TensorOf(<<1>>, <<1>>), TensorOf(<<2>>, <<1, 1>>)),
      Call1("len", IntegerLiteral(1)),
      CallExpression(Identifier("len"), <<>>),
      Call1("first", IntegerLiteral(1)),
      Call2("push", IntegerLiteral(1), IntegerLiteral(2))>>

AfterError == IntegerLiteral(99)

\* The failing expression stands alone, is an operand, or is an argument.
VMErrorProgram(e, place) ==
    Program(<<ExpressionStatement(
                  CASE place = 1 -> VMErrorExpressions[e]
                    [] place = 2 -> InfixExpression("==", VMErrorExpressions[e],
                                                    IntegerLiteral(1))
                    [] place = 3 -> ArrayLiteral(<<VMErrorExpressions[e],
                                                   IntegerLiteral(1)>>)),
              ExpressionStatement(AfterError)>>)

InitVMErrors ==
    \E e \in 1..Len(VMErrorExpressions), place \in 1..3 :
        InitBackends(VMErrorProgram(e, place), <<>>)

SpecVMErrors == InitVMErrors /\ [][NextVM]_vars

\* The failing expression of the program, and whether it is a builtin call.
FailingInVM ==
    LET e == program.Statements[1].Expression
    IN CASE e.k = "InfixExpression" /\ e.Operator = "==" -> e.Left
         [] e.k = "ArrayLiteral" -> e.Elements[1]
         [] OTHER -> e

FailsInBuiltin ==
    /\ FailingInVM.k = "CallExpression"
    /\ FailingInVM.Function.k = "Identifier"

\* Run returned an error and the machine stopped at the failing instruction:
\* the 99 after it was never pushed.
HaltedOnError ==
    /\ vm.status = "error"
    /\ vm.err # ""
    /\ \A i \in 1..Len(vm.stack) : ~IsInteger(vm.stack[i], AfterError.Value)

\* C17: in the VM every runtime error of the spec's error kinds, the argument
\* errors of builtins among them, makes Run return an error through the host
\* channel and halts the machine: no instruction after the failing one is
\* executed.
C17_VMHaltsOnError ==
    vm.status \notin {"idle", "running"} => HaltedOnError

\* The same for the errors that are not raised by a builtin.
VMHaltsOnOwnError ==
    vm.status \notin {"idle", "running"} /\ ~FailsInBuiltin => HaltedOnError

\* A failing builtin call is a value to the VM: Run goes on and ends with nil.
VMGoesOnAfterBuiltinError ==
    vm.status \notin {"idle", "running"} /\ FailsInBuiltin =>
        vm.status = "done" /\ IsInteger(LastPoppedStackElem(vm), AfterError.Value)

(***************************************************************************)
(* The lines of the tokens: the lexer run over every short input of        *)
(* newlines, blanks, letters, digits, quotes, operators and punctuation.   *)
(***************************************************************************)
MaxInput == 4

\* '\n', ' ', 'i', 'f', '1', '"', '=', ';'
LexerAlphabet == <<10, 32, 105, 102, 49, 34, 61, 59>>

\* The j-th input of n bytes, j in 0 .. Len(LexerAlphabet)^n - 1.
LexerInput(n, j) ==
    [i \in 1..n |->
        LexerAlphabet[((j \div (Len(LexerAlphabet) ^ (i - 1))) % Len(LexerAlphabet)) + 1]]

InitLexer ==
    \E n \in 0..MaxInput, j \in 0..(Len(LexerAlphabet) ^ MaxInput - 1) :
        /\ j < Len(LexerAlphabet) ^ n
        /\ program = Program(<<>>)
        /\ order = <<>>
        /\ evalOut = NotEvaluated(<<>>)
        /\ vm = NotStarted
        /\ ps = NoParser
        /\ symtabs = NoSymbolTables
        /\ lx = StartLexer(LexerInput(n, j))

SpecLexer == InitLexer /\ [][NextLexer]_vars

\* The number of newline characters among the first n bytes of the input.
NewlinesBefore(input, n) == Cardinality({i \in 1..n : input[i] = 10})

\* The line on which the k-th returned token began.
BeganOnLine(k) == NewlinesBefore(lx.l.input, lx.starts[k])

ReturnsEarly(tok) ==
    tok.Type \in {"IDENT", "INT", "FLOAT"} \cup {keywords[i][2] : i \in 1..Len(keywords)}

\* C18: every token returned by NextToken, whatever its kind, carries in
\* Line the line on which it began: the number of newline characters the
\* lexer has passed before the token's first character.
C18_TokenLine ==
    \A k \in 1..Len(lx.tokens) : lx.tokens[k].Line = BeganOnLine(k)

\* An identifier, a keyword and a number carry line 0 wherever they begin.
EarlyTokensCarryZero ==
    \A k \in 1..Len(lx.tokens) : ReturnsEarly(lx.tokens[k]) => lx.tokens[k].Line = 0

\* Operators, punctuation, strings and EOF carry their line as long as no
\* string of the input holds a newline (readString does not count lines).
OtherTokensCarryTheirLine ==
    (\A i \in 1..Len(lx.l.input) : lx.l.input[i] # 34) =>
        \A k \in 1..Len(lx.tokens) :
            ~ReturnsEarly(lx.tokens[k]) => lx.tokens[k].Line = BeganOnLine(k)

\* An identifier that began after a newline has been returned.
IdentifierBelowFirstLine ==
    \E k \in 1..Len(lx.tokens) : lx.tokens[k].Type = "IDENT" /\ BeganOnLine(k) > 0

(***************************************************************************)
(* The builtin names in both back ends: each name alone, called, and used  *)
(* inside a function, next to a name that is no builtin.                   *)
(***************************************************************************)
NoBuiltin == "nope"

ResolvedNames == BuiltinNames \o <<NoBuiltin>>

\* name;   name(args);   fn() { name }();
ResolveProgram(name, shape, n) ==
    CASE shape = 1 -> Program1(Identifier(name))
      [] shape = 2 -> ArityProgram(name, n)
      [] shape = 3 -> Program1(CallExpression(
                          FunctionLiteral(<<>>, Block1(Identifier(name)), ""), <<>>))

InitResolve ==
    \E b \in 1..Len(ResolvedNames), shape \in 1..3, n \in 0..MaxArgs :
        /\ shape # 2 => n = 0
        /\ InitBackends(ResolveProgram(ResolvedNames[b], shape, n), <<>>)

SpecResolve == InitResolve /\ [][NextBackends]_vars

\* The name the program uses.
ResolvedName ==
    LET e == program.Statements[1].Expression
    IN IF e.k = "Identifier" THEN e.Value
       ELSE IF e.Function.k = "Identifier" THEN e.Function.Value
       ELSE e.Function.Body.Statements[1].Expression.Value

BothBackendsDone ==
    /\ evalOut.status # "idle"
    /\ vm.status \notin {"idle", "running"}

\* The evaluator did not find the identifier.
NotFoundInEvaluator ==
    /\ isError(evalOut.r)
    /\ evalOut.r.val = "identifier not found: " \o ResolvedName

\* The compiler did not resolve the identifier: the VM never ran.
NotFoundInVM ==
    /\ vm.status = "compile error"
    /\ vm.err = "undefined variable " \o ResolvedName

\* C19: each builtin name of the language (len, first, last, rest, push,
\* pop, puts, join, random, exp) resolves to a builtin in the evaluator
\* exactly when it does in the VM: an identifier naming any of them is
\* never `identifier not found` in one back end while the other resolves it.
C19_BuiltinsResolveAlike ==
    BothBackendsDone => (NotFoundInEvaluator <=> NotFoundInVM)

\* The VM resolves all ten names and only them.
VMResolvesBuiltins ==
    vm.status \notin {"idle", "running"} =>
        (NotFoundInVM <=> ResolvedName = NoBuiltin)

\* The evaluator resolves the six names of its own table and only them.
EvaluatorResolvesItsBuiltins ==
    evalOut.status # "idle" =>
        (NotFoundInEvaluator <=> ResolvedName \notin builtins)

\* pop([10]) is 10 in the VM and `identifier not found: pop` in the
\* evaluator.
PopOnlyInVM ==
    /\ BothBackendsDone
    /\ ResolvedName = "pop"
    /\ NotFoundInEvaluator
    /\ vm.status = "done"
    /\ LastPoppedStackElem(vm).type = "INTEGER"

(***************************************************************************)
(* The symbol tables of a client that encloses tables and defines names in *)
(* any order, as TestDefine and TestResolveLocal do.                       *)
(***************************************************************************)
MaxTables == 3
MaxDefines == 4

DefinedNames == {"a", "b"}

NewEnclosedTable ==
    /\ symtabs.tables # <<>>
    /\ Len(symtabs.tables) < MaxTables
    /\ \E outer \in 1..Len(symtabs.tables) : symtabs' = EncloseTable(symtabs, outer)
    /\ UNCHANGED <<program, order, evalOut, vm, ps, lx>>

DefineName ==
    /\ Len(symtabs.defined) < MaxDefines
    /\ \E h \in 1..Len(symtabs.tables), name \in DefinedNames :
           symtabs' = DefineIn(symtabs, h, name)
    /\ UNCHANGED <<program, order, evalOut, vm, ps, lx>>

NextSymbolTables == NewEnclosedTable \/ DefineName

InitSymbolTables ==
    /\ program = Program(<<>>)
    /\ order = <<>>
    /\ evalOut = NotEvaluated(<<>>)
    /\ vm = NotStarted
    /\ ps = NoParser
    /\ lx = NoLexer
    /\ symtabs = RootSymbolTable

SpecSymbolTables == InitSymbolTables /\ [][NextSymbolTables]_vars

\* The number of definitions made in the table of the k-th one before it.
DefinedBefore(k) ==
    Cardinality({j \in 1..(k - 1) : symtabs.defined[j].table = symtabs.defined[k].table})

\* C20: Define assigns the indices 0, 1, 2, ... in definition order within
\* each scope, with scope Global in the root table and Local in every
\* enclosed table; the index counters of different scopes, also of two
\* sibling scopes enclosed by the same parent, are independent of each other.
C20_DefineIndices ==
    \A k \in 1..Len(symtabs.defined) :
        LET d == symtabs.defined[k]
        IN /\ d.symbol.Index = DefinedBefore(k)
           /\ d.symbol.Scope = IF symtabs.tables[d.table].Outer = 0 THEN "GLOBAL"
                               ELSE "LOCAL"

\* Two tables enclosed by the same parent have both defined a name after
\* the parent did, and one of them a second name.
C20_Witness ==
    \E h1, h2 \in 1..Len(symtabs.tables) :
        /\ h1 # h2
        /\ symtabs.tables[h1].Outer = symtabs.tables[h2].Outer
        /\ symtabs.tables[h1].Outer # 0
        /\ \E k0, k1, k2, k3 \in 1..Len(symtabs.defined) :
              /\ k0 < k1 /\ k1 < k2 /\ k2 < k3
              /\ symtabs.defined[k0].table = symtabs.tables[h1].Outer
              /\ symtabs.defined[k1].table = h1
              /\ symtabs.defined[k2].table = h1
              /\ symtabs.defined[k3].table = h2
              /\ symtabs.defined[k2].symbol.Index = 1
              /\ symtabs.defined[k3].symbol.Index = 0

(***************************************************************************)
(* Resolve in the tables of a client that encloses, defines and resolves   *)
(* in any order, as TestResolveFree, TestResolveUnresolvableFree and       *)
(* TestDefineResolveBuiltins do.                                           *)
(***************************************************************************)
MaxNested == 2

ResolvedBuiltin == "len"

\* The names looked up: the defined ones, a builtin and one never defined.
LookedUpNames == DefinedNames \cup {ResolvedBuiltin, "z"}

\* The client's tables, each enclosed by the one before it.
TableNames == <<"global", "firstLocal", "secondLocal", "thirdLocal">>

RECURSIVE EncloseTo(_, _)
EncloseTo(s, depth) ==
    IF Len(s.tables) >= depth THEN s ELSE EncloseTo(EncloseTable(s, Len(s.tables)), depth)

RECURSIVE DefinitionsIn(_, _)
DefinitionsIn(held, h) ==
    IF h = 0 THEN 0 ELSE held[h].table.numDefinitions + DefinitionsIn(held, h - 1)

\* A definition: the client keeps neither its symbol nor an earlier Resolve.
DefineInScope ==
    /\ DefinitionsIn(symtabs.tables, Len(symtabs.tables)) < MaxNested
    /\ \E h \in 1..Len(symtabs.tables), name \in DefinedNames :
           symtabs' = [DefineIn(symtabs, h, name) EXCEPT !.defined = <<>>,
                                                         !.resolved = <<>>]
    /\ UNCHANGED <<program, order, evalOut, vm, ps, lx>>

DefineBuiltinName ==
    /\ symtabs' = [DefineBuiltinIn(symtabs, 1, 0, ResolvedBuiltin)
                      EXCEPT !.resolved = <<>>]
    /\ UNCHANGED <<program, order, evalOut, vm, ps, lx>>

ResolveName ==
    /\ \E h \in 1..Len(symtabs.tables), name \in LookedUpNames :
           symtabs' = ResolveInTable(symtabs, h, name)
    /\ UNCHANGED <<program, order, evalOut, vm, ps, lx>>

NextResolve == DefineInScope \/ DefineBuiltinName \/ ResolveName

InitResolveTables ==
    /\ program = Program(<<>>)
    /\ order = <<>>
    /\ evalOut = NotEvaluated(<<>>)
    /\ vm = NotStarted
    /\ ps = NoParser
    /\ lx = NoLexer
    /\ symtabs = EncloseTo(RootSymbolTable, Len(TableNames))

SpecFreeSymbols == InitResolveTables /\ [][NextResolve]_vars

\* The nearest definition of a name seen from table h: [found, at, symbol].
RECURSIVE NearestDefinition(_, _, _)
NearestDefinition(held, h, name) ==
    IF \E i \in 1..Len(held[h].table.store) : held[h].table.store[i][1] = name
    THEN [found |-> TRUE, at |-> h, symbol |-> Lookup(held[h].table.store, name)]
    ELSE IF held[h].Outer = 0
    THEN [found |-> FALSE, at |-> 0, symbol |-> Symbol(name, "", 0)]
    ELSE NearestDefinition(held, held[h].Outer, name)

FreeSymbolsOf(held, h) == held[h].table.FreeSymbols

NothingRecorded(r) ==
    \A i \in 1..Len(r.before) : FreeSymbolsOf(r.after, i) = FreeSymbolsOf(r.before, i)

\* The call r promoted the name: a Free symbol with the position at which
\* the symbol of the enclosing table was appended to FreeSymbols.
Promoted(r) ==
    LET original == Lookup(r.after[r.before[r.table].Outer].table.store, r.name)
    IN /\ r.ok
       /\ r.symbol = Symbol(r.name, "FREE", Len(FreeSymbolsOf(r.before, r.table)))
       /\ original.Scope \in {"LOCAL", "FREE"}
       /\ FreeSymbolsOf(r.after, r.table)
              = Append(FreeSymbolsOf(r.before, r.table), original)

ResolvedAsContract(r) ==
    LET n == NearestDefinition(r.before, r.table, r.name)
    IN CASE ~n.found -> ~r.ok /\ NothingRecorded(r)
         [] n.found /\ (n.at = r.table \/ n.symbol.Scope \in {"GLOBAL", "BUILTIN"}) ->
              r.ok /\ r.symbol = n.symbol /\ NothingRecorded(r)
         [] OTHER -> n.symbol.Scope \in {"LOCAL", "FREE"} /\ Promoted(r)

C21_WitnessGlobal ==
    \E k \in 1..Len(symtabs.resolved) :
        LET r == symtabs.resolved[k]
        IN /\ r.ok
           /\ r.symbol.Scope \in {"BUILTIN", "GLOBAL"}
           /\ r.before[r.table].Outer > 1

(***************************************************************************)
(* Closures built where something lies below the captured values:          *)
(*   let apply = fn(f) { f() }; let second = fn(a, f) { f() };             *)
(*   let outer = fn(x, y) { USE };  outer(1, 2)...                         *)
(* with USE one of                                                         *)
(*   fn() { x + y }               the closure is returned, then called     *)
(*   apply(fn() { x + y })        a callee is pending below it             *)
(*   second(0, fn() { x + y })    a callee and an argument are below it    *)
(* and 0 .. MaxCaptured of the parameters captured.                        *)
(***************************************************************************)
CapturedNames == <<"x", "y", "z">>

RECURSIVE SumOfNames(_)
SumOfNames(n) ==
    IF n = 0 THEN IntegerLiteral(7)
    ELSE IF n = 1 THEN Identifier(CapturedNames[1])
    ELSE InfixExpression("+", SumOfNames(n - 1), Identifier(CapturedNames[n]))

Capturing(n) == FunctionLiteral(<<>>, Block1(SumOfNames(n)), "")

CaptureUses == {"returned", "callee", "argument"}

CaptureProgram(n, use) ==
    LET outerCall == CallExpression(Identifier("outer"),
                                    [i \in 1..MaxCaptured |-> IntegerLiteral(i)])
    IN Program(
        <<LetStatement("apply",
              FunctionLiteral(<<"f">>, Block1(CallExpression(Identifier("f"), <<>>)), "")),
          LetStatement("second",
              FunctionLiteral(<<"a", "f">>, Block1(CallExpression(Identifier("f"), <<>>)),
                              "")),
          LetStatement("outer",
              FunctionLiteral(SubSeq(CapturedNames, 1, MaxCaptured),
                  Block1(CASE use = "returned" -> Capturing(n)
                           [] use = "callee" -> Call1("apply", Capturing(n))
                           [] use = "argument" ->
                                Call2("second", IntegerLiteral(0), Capturing(n))),
                  "")),
          ExpressionStatement(IF use = "returned" THEN CallExpression(outerCall, <<>>)
                              ELSE outerCall)>>)

InitCaptures ==
    \E n \in 0..MaxCaptured, use \in CaptureUses :
        InitBackends(CaptureProgram(n, use), <<>>)

SpecCaptures == InitCaptures /\ [][NextVM]_vars

\* The instruction Run is about to fetch, and the free count of a Closure.
FetchedAt(m) == currentFrame(m).ip + 1

AtOpClosure(m) ==
    /\ m.status = "running"
    /\ m.framesIndex >= 1
    /\ FetchedAt(m) < Len(Instructions(currentFrame(m)))
    /\ Instructions(currentFrame(m))[FetchedAt(m) + 1].op = "OpClosure"

ClosureNumFree(m) == ReadUint8(Instructions(currentFrame(m)), FetchedAt(m) + 3)

\* C22: executing Closure(c, f) in the VM takes the f captured values off the
\* value stack and pushes the closure: sp afterwards equals sp before minus
\* f plus 1, so the closure lies directly above whatever was below the
\* captured values.
C22_ClosureTakesCaptured ==
    [][AtOpClosure(vm) /\ vm'.status = "running" =>
           vm'.sp = vm.sp - ClosureNumFree(vm) + 1]_vars

\* What Run does: the closure is pushed above the captured values.
ClosureAboveCaptured ==
    [][AtOpClosure(vm) /\ vm'.status = "running" =>
           /\ vm'.sp = vm.sp + 1
           /\ vm'.stack[vm'.sp].type = "CLOSURE"
           /\ Len(vm'.stack[vm'.sp].val.Free) = ClosureNumFree(vm)]_vars

CaptureUse ==
    LET e == program.Statements[3].Value.Body.Statements[1].Expression
    IN IF e.k = "FunctionLiteral" THEN "returned"
       ELSE IF Len(e.Arguments) = 1 THEN "callee" ELSE "argument"

CapturedCount ==
    LET e == program.Statements[3].Value.Body.Statements[1].Expression
        fn == IF e.k = "FunctionLiteral" THEN e ELSE e.Arguments[Len(e.Arguments)]
        body == fn.Body.Statements[1].Expression
    IN IF body.k = "IntegerLiteral" THEN 0
       ELSE IF body.k = "Identifier" THEN 1
       ELSE IF body.Left.k = "Identifier" THEN 2 ELSE 3

\* With a callee or an argument below the captured values, Call finds a
\* captured value or the argument where the callee should be.
CalleeLostBelowCaptured ==
    vm.status \notin {"idle", "running"} /\ CaptureUse # "returned" /\ CapturedCount > 0 =>
        vm.status = "error" /\ vm.err = "calling non-function and non-built-in"

\* Without captured values, and when the closure is returned at once, the
\* program yields the sum of the captured values (7 when there are none).
CapturedSum == IF CapturedCount = 0 THEN 7 ELSE (CapturedCount * (CapturedCount + 1)) \div 2

ClosureWorksOtherwise ==
    vm.status \notin {"idle", "running"} /\ (CaptureUse = "returned" \/ CapturedCount = 0) =>
        vm.status = "done" /\ IsInteger(LastPoppedStackElem(vm), CapturedSum)

(***************************************************************************)
(* Calls and returns in the VM:                                            *)
(*   let f = fn(a, b) { BODY }; let g = fn(a) { a }; let h = fn() { f(1, 2) }; *)
(*   CONTEXT                                                               *)
(* BODY is a value, a let (no value), empty, or an explicit return; the    *)
(* call stands alone, is the right operand of ==, is an argument of g, or  *)
(* is made by h.                                                           *)
(***************************************************************************)
FrameBodies == {"value", "let", "empty", "return"}
FrameContexts == {"alone", "operand", "argument", "nested"}

FrameBody(k, body) ==
    CASE body = "value" ->
            Block1(IF k = 0 THEN IntegerLiteral(7) ELSE Identifier(ParameterNames[k]))
      [] body = "let" -> BlockStatement(<<LetStatement("t", IntegerLiteral(5))>>)
      [] body = "empty" -> BlockStatement(<<>>)
      [] body = "return" ->
            BlockStatement(<<LetStatement("t", IntegerLiteral(5)),
                             ReturnStatement(Identifier("t")),
                             ExpressionStatement(IntegerLiteral(8))>>)

FrameProgram(k, body, context) ==
    LET call == CallExpression(Identifier("f"), [i \in 1..k |-> IntegerLiteral(i)])
    IN Program(
        <<LetStatement("f", FunctionLiteral(SubSeq(ParameterNames, 1, k),
                                            FrameBody(k, body), "")),
          LetStatement("g", FunctionLiteral(<<"a">>, Block1(Identifier("a")), "")),
          LetStatement("h", FunctionLiteral(<<>>, Block1(call), "")),
          ExpressionStatement(
              CASE context = "alone" -> call
                [] context = "operand" -> InfixExpression("==", IntegerLiteral(9), call)
                [] context = "argument" -> Call1("g", call)
                [] context = "nested" -> CallExpression(Identifier("h"), <<>>))>>)

InitFrames ==
    \E k \in 0..MaxParams, body \in FrameBodies, context \in FrameContexts :
        InitBackends(FrameProgram(k, body, context), <<>>)

SpecFrames == InitFrames /\ [][NextVM]_vars

\* Run is about to fetch the opcode op.
AtOp(m, op) ==
    /\ m.status = "running"
    /\ m.framesIndex >= 1
    /\ FetchedAt(m) < Len(Instructions(currentFrame(m)))
    /\ Instructions(currentFrame(m))[FetchedAt(m) + 1].op = op

CallNumArgs(m) == ReadUint8(Instructions(currentFrame(m)), FetchedAt(m) + 1)

\* Call with n arguments of a closure: the new frame starts at the first
\* argument, directly above the callee, and the caller waits at Call's operand.
CallPushesFrame ==
    AtOp(vm, "OpCall") /\ vm'.status = "running"
        /\ SlotAt(vm.stack, vm.sp - 1 - CallNumArgs(vm)).type = "CLOSURE" =>
            /\ vm'.framesIndex = vm.framesIndex + 1
            /\ currentFrame(vm').basePointer = vm.sp - CallNumArgs(vm)
            /\ currentFrame(vm').cl = SlotAt(vm.stack, vm.sp - 1 - CallNumArgs(vm))
            /\ vm'.frames[vm.framesIndex] =
                   [currentFrame(vm) EXCEPT !.ip = FetchedAt(vm) + 1]

\* ReturnValue and Return in a called frame: exactly that frame is popped,
\* sp is its base pointer and the result lies in the slot below it, the
\* callee's; the caller's frame is as the call left it.
ReturnPopsFrame ==
    (AtOp(vm, "OpReturnValue") \/ AtOp(vm, "OpReturn")) /\ vm.framesIndex > 1
        /\ vm'.status = "running" =>
            /\ vm'.framesIndex = vm.framesIndex - 1
            /\ vm'.sp = currentFrame(vm).basePointer
            /\ SlotAt(vm'.stack, vm'.sp - 1) =
                   IF AtOp(vm, "OpReturn") THEN Null ELSE Top(vm)
            /\ currentFrame(vm') = vm.frames[vm.framesIndex - 1]

\* Between the call and the return nothing touches the caller's frames or
\* the base pointer, or the stack below it.
CalleeKeepsCaller ==
    vm.status = "running" /\ vm'.status = "running"
        /\ vm'.framesIndex >= vm.framesIndex =>
            /\ \A i \in 1..(vm.framesIndex - 1) : vm'.frames[i] = vm.frames[i]
            /\ vm'.frames[vm.framesIndex].basePointer = currentFrame(vm).basePointer
            /\ \A i \in 0..(currentFrame(vm).basePointer - 2) :
                   SlotAt(vm'.stack, i) = SlotAt(vm.stack, i)

\* C23: in the VM, a call of a closure with n arguments followed by its
\* ReturnValue or Return leaves the value stack exactly n slots lower than
\* just before Call, with the result (or Null) in the slot that held the
\* callee, pops exactly the frame that the call pushed, and resumes the
\* caller at the instruction that follows Call.
C23_CallReturnBalance ==
    [][CallPushesFrame /\ ReturnPopsFrame /\ CalleeKeepsCaller]_vars

\* The frame of f(1, 2), called as the argument of g, has just been left by
\* Return: Null lies on the callee's slot, directly above g.
C23_Witness ==
    /\ vm.status = "running"
    /\ vm.framesIndex = 1
    /\ Len(vm.frames) > 1
    /\ vm.frames[2].ip >= 0
    /\ Instructions(vm.frames[2])[vm.frames[2].ip + 1].op = "OpReturn"
    /\ vm.sp = vm.frames[2].basePointer
    /\ vm.frames[2].cl.val.Fn.val.NumParameters = 2
    /\ SlotAt(vm.stack, vm.sp - 1) = Null
    /\ SlotAt(vm.stack, vm.sp - 2).type = "CLOSURE"
    /\ program.Statements[4].Expression.k = "CallExpression"
    /\ program.Statements[4].Expression.Function.Value = "g"

(***************************************************************************)
(* Expression statements at top level:   e; 99;                            *)
(* with e a literal, an operator, an array, an index, a call, a function   *)
(* literal, or an if whose condition is true or false, whose consequence   *)
(* is empty, a value, a let or two statements, and whose alternative is    *)
(* absent, empty or a value.                                               *)
(***************************************************************************)
BalancedExpressions ==
    <<IntegerLiteral(1), Boolean(TRUE), StringLiteral(<<97>>),
      InfixExpression("+", IntegerLiteral(1), IntegerLiteral(2)),
      PrefixExpression("!", Boolean(TRUE)),
      ArrayOf(2),
      IndexExpression(ArrayOf(2), IntegerLiteral(5)),
      Call1("len", ArrayOf(1)),
      FunctionLiteral(<<"a">>, Block1(Identifier("a")), ""),
      CallExpression(FunctionLiteral(<<"a">>, Block1(Identifier("a")), ""),
                     <<IntegerLiteral(3)>>)>>

IfBranches ==
    <<NilNode,
      BlockStatement(<<>>),
      Block1(IntegerLiteral(1)),
      BlockStatement(<<LetStatement("t", IntegerLiteral(5))>>),
      BlockStatement(<<ExpressionStatement(IntegerLiteral(1)),
                       ExpressionStatement(IntegerLiteral(2))>>)>>

\* Statement e is BalancedExpressions[e - 1], or, for e = 0, the if.
BalanceProgram(e, cond, cons, alt) ==
    Program(<<ExpressionStatement(
                  IF e > 0 THEN BalancedExpressions[e]
                  ELSE IfExpression(Boolean(cond), IfBranches[cons], IfBranches[alt])),
              ExpressionStatement(AfterError)>>)

InitBalance ==
    \E e \in 0..Len(BalancedExpressions), cond \in BOOLEAN,
       cons \in 2..Len(IfBranches), alt \in 1..3 :
        /\ e > 0 => cond /\ cons = 2 /\ alt = 1
        /\ InitBackends(BalanceProgram(e, cond, cons, alt), <<>>)

SpecBalance == InitBalance /\ [][NextVM]_vars

\* Run returned with the stack as it was before the statements, the last
\* Pop having removed the 99 of the second one.
Balanced ==
    /\ vm.status = "done"
    /\ vm.sp = 0
    /\ IsInteger(LastPoppedStackElem(vm), AfterError.Value)

\* C24: the VM stack is balanced by every top-level expression statement:
\* after the statement's code and its trailing Pop have run, sp equals its
\* value before the statement, for every expression, an if expression with
\* an empty or non-empty consequence and with or without else included.
C24_StackBalanced ==
    vm.status \notin {"idle", "running"} => Balanced

\* The branch the if of the program takes, and whether it leaves a value.
FirstExpression == program.Statements[1].Expression

TakenBranch ==
    IF FirstExpression.Condition.Value THEN FirstExpression.Consequence
    ELSE FirstExpression.Alternative

LeavesNoValue(block) ==
    /\ block.k = "BlockStatement"
    /\ \/ block.Statements = <<>>
       \/ block.Statements[Len(block.Statements)].k # "ExpressionStatement"

\* Every statement but an if that takes a branch without a value is balanced.
BalancedWithValue ==
    vm.status \notin {"idle", "running"}
        /\ (FirstExpression.k = "IfExpression" => ~LeavesNoValue(TakenBranch)) => Balanced

\* An if that takes an empty branch, or one that ends with a let, leaves
\* nothing for the Pop: pop reads vm.stack[-1].
PopOfNoValue ==
    vm.status \notin {"idle", "running"}
        /\ FirstExpression.k = "IfExpression" /\ LeavesNoValue(TakenBranch) =>
            vm.status = "panic" /\ vm.sp = 0

(***************************************************************************)
(* Infix expressions on operands of every pair of types, in the evaluator. *)
(***************************************************************************)
\* An operand of each type: the literals, an array, a function, a hash and
\* a null (an if without else whose condition is false).
TypedOperands ==
    Atoms \o <<ArrayOf(1),
               FunctionLiteral(<<>>, Block1(IntegerLiteral(1)), ""),
               HashLiteral(<<>>),
               IfExpression(Boolean(FALSE), Block1(IntegerLiteral(1)), NilNode)>>

TypeOfOperand(node) ==
    CASE node.k = "IntegerLiteral" -> "INTEGER"
      [] node.k = "FloatLiteral" -> "FLOAT"
      [] node.k = "Boolean" -> "BOOLEAN"
      [] node.k = "StringLiteral" -> "STRING"
      [] node.k = "ArrayLiteral" -> "ARRAY"
      [] node.k = "FunctionLiteral" -> "FUNCTION"
      [] node.k = "HashLiteral" -> "HASH"
      [] node.k = "IfExpression" -> "NULL"

InitMismatch ==
    \E op \in InfixOperators, a \in 1..Len(TypedOperands), b \in 1..Len(TypedOperands) :
        InitBackends(Program1(InfixExpression(op, TypedOperands[a], TypedOperands[b])),
                     <<>>)

SpecMismatch == InitMismatch /\ [][NextEvaluator]_vars

MismatchLeft == TypeOfOperand(FirstExpression.Left)
MismatchRight == TypeOfOperand(FirstExpression.Right)

IsTypeMismatch(o) ==
    /\ isError(o)
    /\ o.val = "type mismatch: " \o MismatchLeft \o " " \o FirstExpression.Operator
                   \o " " \o MismatchRight

\* C25: in the evaluator, an infix expression whose two operands have
\* different types yields the Error `type mismatch: <left type> <op> <right
\* type>` for each of the operators + - * / < > == !=.
C25_TypeMismatch ==
    evalOut.status # "idle" /\ MismatchLeft # MismatchRight => IsTypeMismatch(evalOut.r)

\* It does for the arithmetic operators and for < and >.
MismatchButEquality ==
    evalOut.status # "idle" /\ MismatchLeft # MismatchRight
        /\ FirstExpression.Operator \notin {"==", "!="} => IsTypeMismatch(evalOut.r)

\* == and != of operands of different types are false and true.
EqualityOfDifferentTypes ==
    evalOut.status # "idle" /\ MismatchLeft # MismatchRight
        /\ FirstExpression.Operator \in {"==", "!="} =>
            evalOut.r = nativeBoolToBooleanObject(FirstExpression.Operator = "!=")

(***************************************************************************)
(* Imports in the evaluator:                                               *)
(*   let b = 0; import "F"; USE                    at top level            *)
(*   let b = 0; let f = fn() { import "F"; USE }; f()    in a function     *)
(* with F a file of FileSystem or a path that cannot be read, and USE one  *)
(* of a, b, test(5).                                                       *)
(***************************************************************************)
ImportPaths == <<"lets.mky", "value.mky", "empty.mky", "fails.mky", "missing.mky">>

ImportUses == <<Identifier("a"), Identifier("b"), Call1("test", IntegerLiteral(5))>>

ImportProgram(path, inFunction, prior, use) ==
    LET body == <<ExpressionStatement(ImportLiteral(ImportPaths[path])),
                  ExpressionStatement(ImportUses[use])>>
    IN Program(<<LetStatement("b", IntegerLiteral(prior))>>
               \o IF inFunction
                  THEN <<LetStatement("f", FunctionLiteral(<<>>, BlockStatement(body), "")),
                         ExpressionStatement(CallExpression(Identifier("f"), <<>>))>>
                  ELSE body)

InitImports ==
    \E path \in 1..Len(ImportPaths), inFunction \in BOOLEAN, prior \in 0..MaxInt,
       use \in 1..Len(ImportUses) :
        InitBackends(ImportProgram(path, inFunction, prior, use), <<>>)

SpecImports == InitImports /\ [][NextEvaluator]_vars

ImportInFunction == program.Statements[2].k = "LetStatement"

ImportedPath ==
    IF ImportInFunction THEN program.Statements[2].Value.Body.Statements[1].Expression.Path
    ELSE program.Statements[2].Expression.Path

\* The importer's current environment: the global one, or the one of the
\* call of f, the first the run encloses.
ImporterEnvironment == IF ImportInFunction THEN 2 ELSE 1

StoreHas(store, name) == \E i \in 1..Len(store) : store[i][1] = name

\* The let is bound in the store of environment e, to its literal's value.
BoundByLet(envs, e, let) ==
    /\ e <= Len(envs)
    /\ StoreHas(envs[e].store, let.Name)
    /\ IF let.Value.k = "IntegerLiteral"
       THEN IsInteger(Lookup(envs[e].store, let.Name), let.Value.Value)
       ELSE Lookup(envs[e].store, let.Name).type = "FUNCTION"

\* The statements an imported program evaluates: all of them, or those up
\* to the first that yields an Error.
FailingAt(stmts) ==
    {i \in 1..Len(stmts) : stmts[i].k = "ExpressionStatement"
                           /\ stmts[i].Expression.k = "InfixExpression"}

EvaluatedStatements(stmts) ==
    IF FailingAt(stmts) = {} THEN stmts
    ELSE SubSeq(stmts, 1, (CHOOSE i \in FailingAt(stmts) :
                               \A j \in FailingAt(stmts) : i <= j) - 1)

ImportBinds(envs, stmts) ==
    \A i \in 1..Len(stmts) :
        stmts[i].k = "LetStatement" =>
            /\ BoundByLet(envs, ImporterEnvironment, stmts[i])
            /\ \A e \in 1..Len(envs) :
                   e # ImporterEnvironment => ~StoreHas(envs[e].store, stmts[i].Name)

\* The environments without the import: b, and f when the import is in f.
NothingImported(envs) ==
    /\ \A e \in 1..Len(envs) :
           \A i \in 1..Len(envs[e].store) : envs[e].store[i][1] \in {"b", "f"}
    /\ IsInteger(Lookup(envs[1].store, "b"), program.Statements[1].Value.Value)

C26_WitnessUnreadable ==
    /\ evalOut.status = "done"
    /\ ImportedPath = "missing.mky"
    /\ isError(evalOut.r)
    /\ evalOut.r.val
           = "error reading import file: open missing.mky: no such file or directory"

(***************************************************************************)
(* A function that calls itself without end, passing its k parameters on   *)
(* after binding l locals:                                                 *)
(*   let f = fn(a, b) { let c = 0; f(a, b) }; f(1, 2)                      *)
(* Every call takes a frame and k + l + 1 slots of the value stack.  The   *)
(* machine is observed from n calls deep: that state is written down in    *)
(* closed form from the first two calls, which are run instruction by      *)
(* instruction, and every further call the machine makes is compared with  *)
(* it (CallsReachDeepVM).                                                  *)
(***************************************************************************)
MaxLocals == 1

EndlessProgram(k, l) ==
    LET call(args) == CallExpression(Identifier("f"), args)
        locals == [i \in 1..l |-> LetStatement(ParameterNames[k + i], IntegerLiteral(0))]
        again == ExpressionStatement(call([i \in 1..k |-> Identifier(ParameterNames[i])]))
    IN Program(
        <<LetStatement("f", FunctionLiteral(SubSeq(ParameterNames, 1, k),
                                            BlockStatement(locals \o <<again>>), "")),
          ExpressionStatement(call([i \in 1..k |-> IntegerLiteral(i)]))>>)

\* The machine just after its n-th nested call.
JustCalled(m, n) == m.framesIndex = n + 1 /\ currentFrame(m).ip = -1

RECURSIVE RunToCall(_, _)
RunToCall(m, n) ==
    IF m.status # "running" \/ JustCalled(m, n) THEN m ELSE RunToCall(Step(m), n)

\* The machine n calls deep, given the machine after its first and after its
\* second call.
DeepVMFrom(first, second, n) ==
    LET perCall == second.sp - first.sp
    IN [second EXCEPT
          !.sp = first.sp + (n - 1) * perCall,
          !.stack = [i \in 1..(Len(first.stack) + (n - 1) * perCall) |->
                        second.stack[((i - 1) % perCall) + 1]],
          !.framesIndex = n + 1,
          !.frames = [i \in 1..(n + 1) |->
                        IF i = 1 THEN second.frames[1]
                        ELSE [cl |-> second.frames[2].cl,
                              ip |-> IF i = n + 1 THEN -1 ELSE second.frames[2].ip,
                              basePointer |->
                                  first.frames[2].basePointer + (i - 2) * perCall]]]

FirstCall(prog) == RunToCall(CompileAndNew(prog), 1)

DeepVM(prog, n) ==
    CHOOSE m \in {DeepVMFrom(first, second, n) :
                     first \in {FirstCall(prog)}, second \in {RunToCall(FirstCall(prog), 2)}} :
        TRUE

Min(a, b) == IF a < b THEN a ELSE b

\* The number of nested calls both arrays have room for.
Deepest(k, l) == Min(MaxFrames - 1, StackeSize \div (k + l + 1))

InitEndless ==
    \E k \in 0..MaxParams, l \in 0..MaxLocals :
        \E n \in {Deepest(k, l) - MaxRecursion - MaxParams, Deepest(k, l)} :
            /\ program = EndlessProgram(k, l)
            /\ order = <<>>
            /\ evalOut = NotEvaluated(<<>>)
            /\ vm = DeepVM(EndlessProgram(k, l), n)
            /\ ps = NoParser
            /\ lx = NoLexer
            /\ symtabs = NoSymbolTables

NextRun == VMStep

SpecEndless == InitEndless /\ [][NextRun]_vars

EndlessFunction == program.Statements[1].Value
EndlessParameters == Len(EndlessFunction.Parameters)
EndlessLocals == Len(EndlessFunction.Body.Statements) - 1
EndlessSlots == EndlessParameters + EndlessLocals + 1

\* Each call the machine makes from n calls deep leaves it n + 1 calls deep.
CallsReachDeepVM ==
    vm.status = "running" /\ currentFrame(vm).ip = -1 =>
        vm = DeepVM(program, vm.framesIndex - 1)

WithinCapacity ==
    /\ vm.sp <= StackeSize
    /\ vm.framesIndex <= MaxFrames

\* C27: the VM never goes past the capacity of its value stack or of its
\* frame stack: sp <= StackSize and framesIndex <= MaxFrames hold at every
\* step, and a program that would exceed either, such as a function that
\* calls itself without end, makes Run return an error rather than access a
\* slot outside the arrays.
C27_WithinCapacity ==
    /\ WithinCapacity
    /\ vm.status # "panic"

\* The frame index stays within the frame stack at every step.
FramesWithinCapacity == vm.framesIndex <= MaxFrames

\* The stack pointer goes past the value stack only by the locals
\* callClosure reserves.
StackWithinLocals == vm.sp <= StackeSize + EndlessLocals

\* When the value stack fills up first, push returns `stack overflow`.
StackOverflowIsAnError ==
    vm.status # "running" /\ EndlessSlots >= 3 =>
        vm.status = "error" /\ vm.err = "stack overflow"

\* When the frame stack fills up first, pushFrame writes frames[MaxFrames].
FrameOverflowPanics ==
    vm.status # "running" /\ EndlessSlots < 3 =>
        vm.status = "panic" /\ vm.framesIndex = MaxFrames

(***************************************************************************)
(* Return statements at the top level of a program and in a function:      *)
(*   return v;          v; return w;          if (v) { return w }; 99      *)
(*   let f = fn() { return v }; f()           v; w                         *)
(***************************************************************************)
TopLevelShapes == {"return", "after", "in if", "in function", "none"}

TopLevelProgram(shape, v, w) ==
    CASE shape = "return" -> Program(<<ReturnStatement(v)>>)
      [] shape = "after" -> Program(<<ExpressionStatement(v), ReturnStatement(w)>>)
      [] shape = "in if" ->
            Program(<<ExpressionStatement(
                          IfExpression(v, BlockStatement(<<ReturnStatement(w)>>), NilNode)),
                      ExpressionStatement(AfterError)>>)
      [] shape = "in function" ->
            Program(<<LetStatement("f", FunctionLiteral(<<>>,
                                        BlockStatement(<<ReturnStatement(v)>>), "")),
                      ExpressionStatement(CallExpression(Identifier("f"), <<>>))>>)
      [] shape = "none" -> Program(<<ExpressionStatement(v), ExpressionStatement(w)>>)

InitTopLevel ==
    \E shape \in TopLevelShapes, i \in 1..Len(Atoms), j \in 1..Len(Atoms) :
        /\ shape \in {"return", "in function"} => j = 1
        /\ InitBackends(TopLevelProgram(shape, Atoms[i], Atoms[j]), <<>>)

SpecTopLevel == InitTopLevel /\ [][NextVM]_vars

Started == vm.status \in {"running", "done", "error", "panic"}

MainFrameExists == vm.framesIndex >= 1 /\ vm.sp >= 0

\* The instruction a running machine is about to execute returns from the
\* main frame.
ReturnsFromMain ==
    /\ vm.status = "running"
    /\ vm.framesIndex = 1
    /\ currentFrame(vm).ip < Len(Instructions(currentFrame(vm))) - 1
    /\ Instructions(currentFrame(vm))[currentFrame(vm).ip + 2].op
           \in {"OpReturnValue", "OpReturn"}

\* The program executed a return statement outside every function.
ReturnedAtTopLevel ==
    \/ program.Statements[1].k = "ReturnStatement"
    \/ Len(program.Statements) = 2 /\ program.Statements[2].k = "ReturnStatement"
    \/ /\ program.Statements[1].k = "ExpressionStatement"
       /\ program.Statements[1].Expression.k = "IfExpression"
       /\ LET condition == program.Statements[1].Expression.Condition
          IN ~(condition.k = "Boolean" /\ ~condition.Value)

\* C28: the main frame of the VM is never popped: framesIndex >= 1 and
\* sp >= 0 hold at every step of Run for every compiled program, a program
\* with a return statement at top level included, so currentFrame always
\* exists.
C28_MainFrameKept == Started => MainFrameExists

\* Without a return statement outside the functions the main frame stays.
MainFrameKeptWithoutReturn ==
    Started /\ ~ReturnedAtTopLevel => MainFrameExists /\ vm.status # "panic"

\* A return statement outside the functions pops the main frame: the frame
\* index is 0, the stack pointer -1, and the push of the value is out of
\* range.
TopLevelReturnPopsMain ==
    [][ReturnsFromMain => vm'.framesIndex = 0 /\ vm'.sp = -1 /\ vm'.status = "panic"]_vars

TopLevelReturnIsReached ==
    vm.status \notin {"idle", "running"} /\ ReturnedAtTopLevel => vm.status = "panic"

(***************************************************************************)
(* Two tensor literals under one of + - * /, their shapes and their        *)
(* numbers of data elements chosen freely (the literal does not relate     *)
(* the two):                                                               *)
(*   @[2],[0.5, 1.5] - @[2],[1.5]          @[1],[0.5] * @[2],[0.5, 1.5]    *)
(* Only the compiler and the VM run.                                       *)
(***************************************************************************)
TensorOperators == {"+", "-", "*", "/"}

InitTensorOperations ==
    \E op \in TensorOperators, n \in 1..MaxData, m \in 1..MaxData,
       la \in 0..MaxData, lb \in 0..MaxData :
        \E a \in [1..la -> 1..Len(DataValues)], b \in [1..lb -> {Len(DataValues)}] :
            InitBackends(Program1(InfixExpression(op, TensorOf(<<n>>, a), TensorOf(<<m>>, b))),
                         <<>>)

SpecTensorOperations == InitTensorOperations /\ [][NextVM]_vars

LeftTensor == program.Statements[1].Expression.Left
RightTensor == program.Statements[1].Expression.Right
TensorOperator == program.Statements[1].Expression.Operator

\* o has the left operand's shape and one data element per data element of
\* the left operand.
IsShapedAsLeft(o) ==
    /\ o.type = "TENSOR"
    /\ o.val.Shape = LiteralShape(LeftTensor)
    /\ Len(o.val.Data) = Len(LiteralData(LeftTensor))

ErrorOrShapedAsLeft ==
    \/ vm.status = "error"
    \/ vm.status = "done" /\ IsShapedAsLeft(LastPoppedStackElem(vm))

\* C29: a binary tensor operation of the VM never reads past the end of an
\* operand's data: for any two tensor values the VM can construct from
\* tensor literals, each of + - * / either returns an error or returns a
\* tensor with the left operand's shape and one data element per data
\* element of the left operand.
C29_TensorOperationInRange ==
    vm.status \notin {"idle", "running"} => ErrorOrShapedAsLeft

RightIsShorter == Len(LiteralData(RightTensor)) < Len(LiteralData(LeftTensor))

\* With at least as many data elements on the right as on the left the
\* operation does what the claim says.
InRangeWhenRightIsLongEnough ==
    vm.status \notin {"idle", "running"} /\ ~RightIsShorter => ErrorOrShapedAsLeft

\* With fewer, the loop over the left operand's data indexes the right
\* operand's data out of range, unless + has refused the shapes before.
ShorterRightIsOutOfRange ==
    vm.status \notin {"idle", "running"} /\ RightIsShorter =>
        IF TensorOperator = "+" /\ LiteralShape(LeftTensor) # LiteralShape(RightTensor)
        THEN vm.status = "error"
        ELSE vm.status = "panic"

(***************************************************************************)
(* A hash literal of up to MaxPairs pairs as a statement, its pairs chosen *)
(* freely, equal keys and failing pairs included:                          *)
(*   {0: 11, 0: 12}      {-true: 11, [1]: 12}      {0: 1 + true, 1: 12}    *)
(* The evaluator visits the pairs in the order perm; the outcome is        *)
(* compared with the outcome of visiting them as written.                  *)
(***************************************************************************)
PairKeys ==
    <<IntegerLiteral(0), IntegerLiteral(1), PrefixExpression("-", Boolean(TRUE)),
      ArrayLiteral(<<IntegerLiteral(1)>>)>>

PairValue(i, fails) ==
    IF fails THEN InfixExpression("+", IntegerLiteral(i), Boolean(TRUE))
    ELSE IntegerLiteral(10 + i)

WrittenOrder == [m \in 1..MaxPairs |-> [i \in 1..m |-> i]]

InitLiteralOrders ==
    \E n \in 1..MaxPairs :
        \E keys \in [1..n -> 1..Len(PairKeys)], fails \in [1..n -> BOOLEAN],
           perm \in Permutations(1..n) :
            InitBackends(Program1(HashLiteral([i \in 1..n |->
                                      <<PairKeys[keys[i]], PairValue(i, fails[i])>>])),
                         [WrittenOrder EXCEPT ![n] = perm])

SpecLiteralOrders == InitLiteralOrders /\ [][NextEvaluator]_vars

\* The same pairs, or the same Error.
SameOutcome(a, b) ==
    /\ a.type = b.type
    /\ a.type = "ERROR" => a.val = b.val
    /\ a.type = "HASH" =>
           /\ DOMAIN a.val = DOMAIN b.val
           /\ \A h \in DOMAIN a.val :
                  /\ a.val[h].Key.val = b.val[h].Key.val
                  /\ a.val[h].Value.val = b.val[h].Value.val

AsWritten == Evaluate(program, WrittenOrder)

LiteralPairs == program.Statements[1].Expression.Pairs

PairFails(pair) == pair[1].k # "IntegerLiteral" \/ pair[2].k # "IntegerLiteral"

EqualKeys == \E i, j \in 1..Len(LiteralPairs) : i # j /\ LiteralPairs[i][1] = LiteralPairs[j][1]

SeveralFail ==
    \E i, j \in 1..Len(LiteralPairs) :
        i # j /\ PairFails(LiteralPairs[i]) /\ PairFails(LiteralPairs[j])

\* Every pair of the literal evaluates to a key and a value.
NoPairFails == \A i \in 1..Len(LiteralPairs) : ~PairFails(LiteralPairs[i])

\* C30: evaluating the same hash literal twice in equal environments gives
\* the same result in the evaluator (the same pairs, or the same Error): the
\* outcome does not depend on the order in which the pairs of the literal
\* are visited, also when two pairs have equal keys or when more than one
\* pair would produce an error.
C30_OrderIndependent ==
    evalOut.status # "idle" => SameOutcome(evalOut.r, AsWritten.r)

\* With different keys and at most one failing pair the order does not
\* matter.
OrderIndependentOtherwise ==
    evalOut.status # "idle" /\ ~SeveralFail /\ ~(EqualKeys /\ NoPairFails) =>
        SameOutcome(evalOut.r, AsWritten.r)

\* Of two pairs with equal keys the one visited last is the one kept.
LastVisitedIsKept ==
    evalOut.status # "idle" /\ EqualKeys /\ NoPairFails =>
        /\ evalOut.r.type = "HASH"
        /\ \A h \in DOMAIN evalOut.r.val :
               evalOut.r.val[h].Value.val
                   = LiteralPairs[order[Len(LiteralPairs)][Len(LiteralPairs)]][2].Value

\* Of several failing pairs the one visited first gives the Error.
FirstVisitedFails ==
    evalOut.status # "idle" /\ SeveralFail =>
        LET first == LiteralPairs[order[Len(LiteralPairs)][1]]
        IN SameOutcome(evalOut.r,
                       Evaluate(Program1(HashLiteral(<<first>>)), WrittenOrder).r)

====
